---- MODULE Spec2Model ----
(***************************************************************************)
(* Model of the SwarmAgents job dispatch loop (worker/worker.py: run_once, *)
(* process_job), its queue primitives (worker/redis_helpers.py), the       *)
(* status endpoint (api/main.py), the block-state files of the two         *)
(* backends (agents/youtube_researcher.py, agents/twitter_researcher.py:   *)
(* _save_state, _load_state), their client wrappers (_call_api) and the    *)
(* remote adapters (mcp/*_researcher_server.py: call).                     *)
(***************************************************************************)
EXTENDS Integers, Sequences, FiniteSets, TLC

VARIABLES
    tasks,          \* redis list 'tasks': the live queue
    delayed_jobs,   \* redis sorted set 'delayed_jobs'
    slot,           \* redis keys job:<id>
    files,          \* the directory runs/jobs
    clock,          \* the wall clock, time.time()
    ticks,          \* number of clock advances so far
    enqueued,       \* entries pushed by the enqueuer so far
    pc,             \* per worker: position inside run_once
    now,            \* per worker: run_once's local now (read before the requeue phase)
    due,            \* per worker: run_once's list 'due', the part not yet iterated
    raw_str,        \* per worker: run_once's local raw_str
    result,         \* per worker: run_once's local result
    q,              \* per worker: the caught deferral's retry_after (q.retry_after)
    retry_after,    \* per worker: run_once's local retry_after
    retry_at,       \* per worker: run_once's local retry_at
    defer_time,     \* per worker: the time.time() read that retry_at was computed from
    ret,            \* per worker: how the last run_once call ended
    names,          \* directory of the state file: name -> inode (0: no such file)
    inodes,         \* inode -> content, a sequence of bytes
    data,           \* per writer: the length of the value it passes to _save_state
    spc,            \* per writer: position inside _save_state
    ftmp,           \* per writer: the inode its open handle ftmp refers to
    lock,           \* holder of the FileLock on path + ".lock" (0: free)
    rpc,            \* position of the reader inside _load_state (video backend)
    rret,           \* what that _load_state call returned
    tfile,          \* the social backend's state file runs/twitter_researcher_state.json
    tdata,          \* the length of the value TwitterResearcher._save_state dumps
    tpc,            \* position of the writer inside TwitterResearcher._save_state
    trret,          \* how the last TwitterResearcher._load_state call ended
    tlock,          \* another process holds the social backend's lock file
    yblock,         \* blocked_until in the video backend's state file
    tblock,         \* blocked_until in the social backend's state file
    tstate,         \* blocked_until in the TwitterResearcher object's _state
    cpc,            \* position of the client-wrapper call (_call_api)
    ckey,           \* whether the call's researcher has an API key / bearer token
    cnow,           \* the call's local now
    attempt,        \* the video wrapper's loop variable
    backoff,        \* the video wrapper's local backoff
    requests,       \* outbound requests the current call has made
    creply,         \* the upstream reply received last
    cout,           \* how the call ended
    ncalls,         \* wrapper calls started so far
    cback,          \* the backend whose wrapper is being called
    given           \* what the last recorded process_job call was given

dvars == <<tasks, delayed_jobs, slot, files, clock, ticks, enqueued,
           pc, now, due, raw_str, result, q, retry_after, retry_at, defer_time, ret>>
svars == <<names, inodes, data, spc, ftmp, lock>>
rvars == <<rpc, rret, tfile, tdata, tpc, trret, tlock>>
cvars == <<yblock, tblock, tstate, cpc, ckey, cnow, attempt, backoff, requests,
           creply, cout, ncalls, cback>>
hvars == <<given>>
\* The dispatch state without the clock.
qvars == <<tasks, delayed_jobs, slot, files, enqueued,
           pc, now, due, raw_str, result, q, retry_after, retry_at, defer_time, ret>>
vars == <<tasks, delayed_jobs, slot, files, clock, ticks, enqueued,
          pc, now, due, raw_str, result, q, retry_after, retry_at, defer_time, ret,
          names, inodes, data, spc, ftmp, lock,
          rpc, rret, tfile, tdata, tpc, trret, tlock,
          yblock, tblock, tstate, cpc, ckey, cnow, attempt, backoff, requests,
          creply, cout, ncalls, cback, given>>

(* ------------------------------ bounds --------------------------------- *)
NumWorkers == 2
NumWriters == 2
MaxTicks == 2
MaxCalls == 2

Workers == 1..NumWorkers
\* Ids of the jobs that are followed (uuid4 strings in create_task).
JobIds == {1, 2}
Writers == 1..NumWriters
TickSteps == {30, 31}

\* Python's None, and an optional number that is present.
None == [none |-> TRUE]
Some(n) == [n |-> n]
\* float("nan"): truthy, and every comparison with it is false.
NaN == [nan |-> TRUE]
\* Truthiness of an optional number: None and 0 are falsy.
Truthy(x) == x # None /\ (x = NaN \/ x.n # 0)
\* x > k for an optional number that is not None.
Greater(x, k) == x # NaN /\ x.n > k

(* ------------------------- jobs and their bytes ------------------------ *)
\* Byte-level layout of an enqueued entry: json.dumps output ("dumps", with
\* ", " and ": " separators) or a compact layout written by another enqueuer.
Layouts == {"dumps", "compact"}

\* A serialized queue entry: the job's fields plus the layout of its bytes.
Entry(id, payload, layout) == [id |-> id, payload |-> payload, layout |-> layout]
\* What the enqueuers push: api/main.py create_task writes json.dumps(job);
\* other producers of the inbound queue contract may write compact JSON.
Enqueuers ==
    { [payload |-> [prompt_id |-> "pr-007", agent |-> "", tags |-> {}],
       layout |-> "dumps"],
      [payload |-> [prompt_id |-> "", agent |-> "twitter_researcher", tags |-> {}],
       layout |-> "compact"],
      [payload |-> [prompt_id |-> "", agent |-> "", tags |-> {}],
       layout |-> "dumps"] }

\* json.loads(raw_str): the job dictionary; the byte layout is not part of it.
json_loads_job(raw) == [id |-> raw.id, payload |-> raw.payload]
\* json.dumps(job): always the default layout.
json_dumps_job(job) == Entry(job.id, job.payload, "dumps")

\* Byte order of two entries (redis orders equal scores lexicographically):
\* '{"id": ' sorts before '{"id":"' ; equal layouts compare by id.
LayoutRank(l) == IF l = "dumps" THEN 0 ELSE 1
MemberLess(a, b) ==
    \/ LayoutRank(a.layout) < LayoutRank(b.layout)
    \/ LayoutRank(a.layout) = LayoutRank(b.layout) /\ a.id < b.id

(* --------------------------- queue primitives -------------------------- *)
\* delayed_jobs is a sorted set: a set of [m |-> member, s |-> score] with at
\* most one element per member.
ZMembers(z) == {e.m : e \in z}
ZScore(z, m) == (CHOOSE e \in z : e.m = m).s

ZLess(a, b) == a.s < b.s \/ (a.s = b.s /\ MemberLess(a.m, b.m))

RECURSIVE ZSorted(_)
ZSorted(z) ==
    IF z = {} THEN <<>>
    ELSE LET first == CHOOSE e \in z : \A f \in z \ {e} : ZLess(e, f)
         IN <<first.m>> \o ZSorted(z \ {first})

\* Variant of the range query that leaves out the upper end.
zrangebyscore_Exclusive(z, min_score, max_score) ==
    ZSorted({e \in z : min_score <= e.s /\ e.s < max_score})

zrangebyscore(z, min_score, max_score) ==
    ZSorted({e \in z : min_score <= e.s /\ e.s <= max_score})

zrem_Keeps(z, value) == z
zrem(z, value) == {e \in z : e.m # value}

zadd(z, member, score) == {e \in z : e.m # member} \cup {[m |-> member, s |-> score]}

\* Variant of the push whose value never reaches the list.
rpush_Dropped(list, value) == list

rpush(list, value) == Append(list, value)

(* ------------------------------ process_job ---------------------------- *)
\* Retry hints a backend's deferral can carry (q.retry_after).
Hints == {None, Some(0), Some(-5), Some(2), Some(30), Some(90)}
\* Messages of non-quota exceptions (str(e)); an exception raised without
\* arguments has the empty message.
ErrMsgs == {"boom", ""}
\* Python values a backend returns: a list of records, or text.
PyList(recs) == [t |-> "list", v |-> recs]
PyStr(text) == [t |-> "str", v |-> text]
Records == { <<[videoId |-> "v1"]>> }

\* What researcher.search(...) does in-process.
LocalOutcomes ==
    {[kind |-> "records", v |-> PyList(recs)] : recs \in Records}
    \cup {[kind |-> "deferred", r |-> h] : h \in Hints}
    \cup {[kind |-> "error", msg |-> m] : m \in ErrMsgs}

\* Retry-After header of a remote 429 reply: absent, unparsable, a number, or
\* the text "nan" (which float() parses).
RetryAfterHeaders ==
    {[h |-> "absent"], [h |-> "junk"], [h |-> "nan"]}
    \cup {[h |-> "num", n |-> n] : n \in {0, 2, 90}}
\* requests.post raised (connection error, timeout): there is no status.
ConnectionFailed == 0
\* What requests.post(mcp_url + "/call") does. The body of a 200 reply carries
\* the records under "response" (the video server's CallResponse) or under
\* "results" (the social server's CallResponse).
RemoteReplies ==
    {[status |-> 200, response |-> PyList(recs)] : recs \in Records}
    \cup {[status |-> 200, results |-> PyList(recs)] : recs \in Records}
    \cup {[status |-> 429, ra |-> ra] : ra \in RetryAfterHeaders}
    \cup {[status |-> 500], [status |-> ConnectionFailed]}

\* str(int(retry_after)): the header text of a whole number of seconds.
HeaderOfSeconds(n) == [h |-> "num", n |-> n]

\* mcp/youtube_researcher_server.py call: served is what researcher.search
\* does behind the server. The header is set only for a truthy hint; int(nan)
\* raises inside the handler, which the framework answers with 500. An
\* APIError is answered with 502 and any other exception with 500; the worker
\* treats both alike, the model keeps 500.
youtube_server_call(served) ==
    CASE served.kind = "records" -> [status |-> 200, response |-> served.v]
      [] served.kind = "deferred" ->
            IF ~Truthy(served.r) THEN [status |-> 429, ra |-> [h |-> "absent"]]
            ELSE IF served.r = NaN THEN [status |-> 500]
            ELSE [status |-> 429, ra |-> HeaderOfSeconds(served.r.n)]
      [] OTHER -> [status |-> 500]

\* mcp/twitter_researcher_server.py call: int(None) and int(nan) raise inside
\* the handler (500); the records are returned under "results".
twitter_server_call(served) ==
    CASE served.kind = "records" -> [status |-> 200, results |-> served.v]
      [] served.kind = "deferred" ->
            IF served.r = None \/ served.r = NaN THEN [status |-> 500]
            ELSE [status |-> 429, ra |-> HeaderOfSeconds(served.r.n)]
      [] OTHER -> [status |-> 500]

\* The outcomes of process_job: a returned JobResult, a deferral that bubbles
\* up, or another exception that escapes.
Return(res) == [kind |-> "return", result |-> res]
Deferral(r) == [kind |-> "deferral", retry_after |-> r]
Raise(exc) == [kind |-> "raise", exc |-> exc]

\* datetime.now(timezone.utc).isoformat(); the instant itself is not modelled.
IsoNow == "utc-iso-8601"
SuccessResult(job_id, response) ==
    [id |-> job_id, response |-> response, finished_at |-> IsoNow]
\* Variant of the error result that also carries an (empty) response.
ErrorResult_WithResponse(job_id, msg) ==
    [id |-> job_id, error |-> msg, response |-> [t |-> "list", v |-> <<>>],
     finished_at |-> IsoNow]
ErrorResult(job_id, msg) ==
    [id |-> job_id, error |-> msg, finished_at |-> IsoNow]

\* Variant of the header parse that drops the value.
HeaderRetryAfter_Ignored(ra) == None

\* float(ra) if ra is not None else None, None when float() raises.
HeaderRetryAfter(ra) ==
    IF ra.h = "num" THEN Some(ra.n) ELSE IF ra.h = "nan" THEN NaN ELSE None

\* resp.json().get("response") or []
ReplyRecords(reply) ==
    IF "response" \in DOMAIN reply /\ reply.response.v # <<>>
    THEN reply.response
    ELSE PyList(<<>>)

\* prompt_id = payload.get("prompt_id") or payload.get("id"), then str() of it
\* or "" for None. An absent, None or empty prompt_id is "" in the model; the
\* payload's own id field is optional.
PromptIdOf(payload) ==
    IF payload.prompt_id # "" THEN payload.prompt_id
    ELSE IF "id" \in DOMAIN payload THEN payload.id
    ELSE ""
IsTwitterJob(payload) ==
    \/ PromptIdOf(payload) = "pr-twitter"
    \/ payload.agent = "twitter_researcher"
    \/ "twitter" \in payload.tags
IsYouTubeJob(payload) ==
    \/ PromptIdOf(payload) = "pr-007"
    \/ payload.agent = "youtube_researcher"
    \/ "youtube" \in payload.tags
\* Variant of the if/elif chain that tests the video predicate first.
Backend_VideoFirst(payload) ==
    IF IsYouTubeJob(payload) THEN "video"
    ELSE IF IsTwitterJob(payload) THEN "social"
    ELSE "generic"
\* The if/elif/else chain of process_job: which branch handles the payload.
Backend(payload) ==
    IF IsTwitterJob(payload) THEN "social"
    ELSE IF IsYouTubeJob(payload) THEN "video"
    ELSE "generic"

\* The remote call did not settle the attempt: no MCP url, or the generic
\* handler caught what the remote block raised.
FallBack == [kind |-> "fallback"]
\* The 'if mcp_url:' block of the job's branch: what it returns or raises, or
\* FallBack when the in-process researcher is called next.
RemoteCall(job, mcp, reply) ==
    IF ~mcp THEN FallBack
    ELSE IF Backend(job.payload) = "social" THEN
        CASE reply.status = 200 -> Return(SuccessResult(job.id, ReplyRecords(reply)))
          [] reply.status = 429 ->
                \* int(retry_after) raises for nan: the generic handler
                \* takes it for a failed remote call
                LET ra == HeaderRetryAfter(reply.ra)
                IN IF ra = NaN THEN FallBack
                   ELSE Deferral(IF ra # None THEN ra ELSE Some(60))
          [] OTHER -> FallBack
    ELSE IF Backend(job.payload) = "video" THEN
        \* a 200 assigns records, never result: 'return result' raises
        CASE reply.status = 200 -> Raise("UnboundLocalError")
          [] reply.status = 429 -> Deferral(HeaderRetryAfter(reply.ra))
          [] OTHER -> FallBack
    ELSE FallBack

\* process_job(job): mcp is whether the backend's MCP url is configured,
\* reply what the remote call does, local what the in-process researcher does.
process_job(job, mcp, reply, local) ==
    LET job_id == job.id
        payload == job.payload
        LocalTwitter ==
            CASE local.kind = "records" -> Return(SuccessResult(job_id, local.v))
              [] local.kind = "deferred" -> Deferral(local.r)
              [] OTHER -> Return(ErrorResult(job_id, local.msg))
        \* the youtube branch with an MCP url assigns records but never result
        LocalYouTubeAfterMcp ==
            CASE local.kind = "records" -> Raise("UnboundLocalError")
              [] local.kind = "deferred" -> Deferral(local.r)
              [] OTHER -> Return(ErrorResult(job_id, local.msg))
        LocalYouTube ==
            CASE local.kind = "records" -> Return(SuccessResult(job_id, local.v))
              [] local.kind = "deferred" -> Deferral(local.r)
              [] OTHER -> Return(ErrorResult(job_id, local.msg))
        remote == RemoteCall(job, mcp, reply)
    IN
    IF Backend(payload) = "social" THEN
        IF remote = FallBack THEN LocalTwitter ELSE remote
    ELSE IF Backend(payload) = "video" THEN
        IF remote # FallBack THEN remote
        ELSE IF mcp THEN LocalYouTubeAfterMcp ELSE LocalYouTube
    ELSE Return(SuccessResult(job_id, PyStr("text")))

(* --------------------------- result persistence ------------------------ *)
\* json.dumps of a JobResult / json.loads of the stored text: Python lists
\* become JSON arrays and back, text becomes a JSON string and back.
\* (JsonOf_Text: a serializer that writes the text of the value, as str does.)
JsonOf_Text(v) == [t |-> "string", v |-> v.v]
JsonOf(v) == [t |-> IF v.t = "list" THEN "array" ELSE "string", v |-> v.v]
PyOf(j) == [t |-> IF j.t = "array" THEN "list" ELSE "str", v |-> j.v]
json_dumps(res) ==
    [f \in DOMAIN res |-> IF f = "response" THEN JsonOf(res[f]) ELSE res[f]]
json_loads(text) ==
    [f \in DOMAIN text |-> IF f = "response" THEN PyOf(text[f]) ELSE text[f]]

\* A redis key that does not exist (r.get returns None).
Absent == [absent |-> TRUE]

\* api/main.py get_status: the pending marker when the key is absent.
get_status(job_id) ==
    IF slot[job_id] = Absent THEN [status |-> "pending"] ELSE json_loads(slot[job_id])

\* result.get("error"): truthy only for a present, non-empty error string.
ErrorTruthy(res) == "error" \in DOMAIN res /\ res.error # ""

\* The url backfill of run_once: every record of a list response that has a
\* videoId and no url gets one.
WithUrl(rec) ==
    IF "videoId" \in DOMAIN rec /\ "url" \notin DOMAIN rec
    THEN [f \in DOMAIN rec \cup {"url"} |->
             IF f = "url" THEN <<"https://www.youtube.com/watch?v=", rec.videoId>>
             ELSE rec[f]]
    ELSE rec
Backfill(res) ==
    IF "response" \in DOMAIN res /\ res.response.t = "list"
    THEN [res EXCEPT !.response.v = [i \in DOMAIN res.response.v |-> WithUrl(res.response.v[i])]]
    ELSE res

stable_fname(job_id) == [kind |-> "last_job", id |-> job_id]
snap_fname(job_id, ts) == [kind |-> "job", id |-> job_id, ts |-> ts]
\* open(fname, "w") + json.dump: creates the file or replaces its content.
WriteFile(dir, fname, content) ==
    {f \in dir : f.name # fname} \cup {[name |-> fname, content |-> content]}

\* Variants of the delay: max(r, 60), and a test of truthiness alone.
RetryDelay_Max60(r) == IF Truthy(r) /\ Greater(r, 60) THEN r.n ELSE 60
RetryDelay_TruthyOnly(r) == IF Truthy(r) /\ r # NaN THEN r.n ELSE 60

\* The delay run_once applies to a deferral with hint r (q.retry_after).
RetryDelay(r) == IF Truthy(r) /\ Greater(r, 0) THEN r.n ELSE 60

\* The marker run_once stores for a deferred job.
DeferredMarker(job_id, delay, at) ==
    [id |-> job_id, deferred |-> TRUE, retry_after |-> delay, scheduled_at |-> at]

(* ------------------------------- run_once ------------------------------ *)
InitDispatch ==
    /\ tasks = <<>>
    /\ delayed_jobs = {}
    /\ slot = [j \in JobIds |-> Absent]
    /\ files = {}
    /\ clock = 0
    /\ ticks = 0
    /\ enqueued = {}
    /\ pc = [w \in Workers |-> "idle"]
    /\ now = [w \in Workers |-> 0]
    /\ due = [w \in Workers |-> <<>>]
    /\ raw_str = [w \in Workers |-> None]
    /\ result = [w \in Workers |-> None]
    /\ q = [w \in Workers |-> None]
    /\ retry_after = [w \in Workers |-> 0]
    /\ retry_at = [w \in Workers |-> 0]
    /\ defer_time = [w \in Workers |-> 0]
    /\ ret = [w \in Workers |-> "none"]

\* The locals of run_once, and what only the environment changes.
locals == <<now, due, raw_str, result, q, retry_after, retry_at, defer_time>>
world == <<clock, ticks, enqueued>>

\* api/main.py create_task (or another enqueuer): push one new job, its id
\* drawn from ids.
Enqueue(ids) ==
    /\ \E id \in ids, e \in Enqueuers :
          /\ \A x \in enqueued : x.id # id
          /\ tasks' = Append(tasks, Entry(id, e.payload, e.layout))
          /\ enqueued' = enqueued \cup {Entry(id, e.payload, e.layout)}
    /\ UNCHANGED <<delayed_jobs, slot, files, clock, ticks, pc, ret, locals>>

\* What a client may post to /tasks: any combination of the fields the
\* selection reads, with or without an id field of its own.
PromptIds == {"", "pr-007", "pr-twitter"}
Agents == {"", "twitter_researcher", "youtube_researcher"}
Payloads ==
    {[prompt_id |-> p, agent |-> a, tags |-> t] :
        p \in PromptIds, a \in Agents, t \in SUBSET {"twitter", "youtube"}}
    \cup {[prompt_id |-> p, agent |-> a, tags |-> t, id |-> i] :
        p \in PromptIds, a \in Agents, t \in SUBSET {"twitter", "youtube"},
        i \in PromptIds \ {""}}
\* api/main.py create_task with a payload of the client's choice.
Submit(ids) ==
    /\ \E id \in ids, payload \in Payloads :
          /\ \A x \in enqueued : x.id # id
          /\ tasks' = Append(tasks, Entry(id, payload, "dumps"))
          /\ enqueued' = enqueued \cup {Entry(id, payload, "dumps")}
    /\ UNCHANGED <<delayed_jobs, slot, files, clock, ticks, pc, ret, locals>>

\* Time passes.
Tick ==
    /\ ticks < MaxTicks
    /\ \E d \in TickSteps : clock' = clock + d
    /\ ticks' = ticks + 1
    /\ UNCHANGED <<tasks, delayed_jobs, slot, files, enqueued, pc, ret, locals>>

\* The locals of a run_once call that has ended.
DropLocals(w) ==
    /\ now' = [now EXCEPT ![w] = 0]
    /\ due' = [due EXCEPT ![w] = <<>>]
    /\ raw_str' = [raw_str EXCEPT ![w] = None]
    /\ result' = [result EXCEPT ![w] = None]
    /\ q' = [q EXCEPT ![w] = None]
    /\ retry_after' = [retry_after EXCEPT ![w] = 0]
    /\ retry_at' = [retry_at EXCEPT ![w] = 0]
    /\ defer_time' = [defer_time EXCEPT ![w] = 0]

\* run_once returns (or raises) with the given outcome.
Finish(w, how) ==
    /\ pc' = [pc EXCEPT ![w] = "idle"]
    /\ ret' = [ret EXCEPT ![w] = how]
    /\ DropLocals(w)

\* A call of run_once starts: now = time.time(); due = zrangebyscore(...).
RequeueScan(w) ==
    /\ pc[w] = "idle"
    /\ now' = [now EXCEPT ![w] = clock]
    /\ LET d == zrangebyscore(delayed_jobs, 0, clock)
       IN /\ due' = [due EXCEPT ![w] = d]
          /\ pc' = [pc EXCEPT ![w] = IF d = <<>> THEN "blpop" ELSE "zrem"]
    /\ ret' = [ret EXCEPT ![w] = "none"]
    /\ UNCHANGED <<tasks, delayed_jobs, slot, files, world,
                   raw_str, result, q, retry_after, retry_at, defer_time>>

\* rh_zrem(r, "delayed_jobs", member)
Zrem(w) ==
    /\ pc[w] = "zrem"
    /\ delayed_jobs' = zrem(delayed_jobs, Head(due[w]))
    /\ pc' = [pc EXCEPT ![w] = "rpush"]
    /\ UNCHANGED <<tasks, slot, files, world, ret, locals>>

\* The next member of the requeue loop after the current one was handled or
\* skipped.
NextMember(w) ==
    /\ due' = [due EXCEPT ![w] = Tail(due[w])]
    /\ pc' = [pc EXCEPT ![w] = IF Tail(due[w]) = <<>> THEN "blpop" ELSE "zrem"]

\* rh_rpush(r, "tasks", member), then the next member of the loop
Rpush(w) ==
    /\ pc[w] = "rpush"
    /\ tasks' = rpush(tasks, Head(due[w]))
    /\ NextMember(w)
    /\ UNCHANGED <<delayed_jobs, slot, files, world, ret,
                   now, raw_str, result, q, retry_after, retry_at, defer_time>>

\* rh_blpop timed out with no item: return False
BlpopTimeout(w) ==
    /\ pc[w] = "blpop"
    /\ tasks = <<>>
    /\ Finish(w, "False")
    /\ UNCHANGED <<tasks, delayed_jobs, slot, files, world>>

\* rh_blpop returned an item (the local now is not read again)
Blpop(w) ==
    /\ pc[w] = "blpop"
    /\ tasks # <<>>
    /\ raw_str' = [raw_str EXCEPT ![w] = Head(tasks)]
    /\ tasks' = Tail(tasks)
    /\ now' = [now EXCEPT ![w] = 0]
    /\ pc' = [pc EXCEPT ![w] = "execute"]
    /\ UNCHANGED <<delayed_jobs, slot, files, world, ret,
                   due, result, q, retry_after, retry_at, defer_time>>

\* The job of the popped entry: json.loads(raw_str).
JobOf(w) == json_loads_job(raw_str[w])

\* result = process_job(job): the result is kept; a deferral is caught and
\* retry_after and retry_at are computed; anything else escapes run_once.
Attempt(w, mcp, reply, local) ==
         LET out == process_job(JobOf(w), mcp, reply, local)
         IN CASE out.kind = "return" ->
                    /\ result' = [result EXCEPT ![w] = out.result]
                    /\ pc' = [pc EXCEPT ![w] = "set"]
                    /\ UNCHANGED <<ret, now, due, raw_str, q, retry_after, retry_at,
                                   defer_time>>
              [] out.kind = "deferral" ->
                    /\ q' = [q EXCEPT ![w] = out.retry_after]
                    /\ retry_after' = [retry_after EXCEPT ![w] = RetryDelay(out.retry_after)]
                    /\ defer_time' = [defer_time EXCEPT ![w] = clock]
                    /\ retry_at' = [retry_at EXCEPT ![w] = clock + RetryDelay(out.retry_after)]
                    /\ pc' = [pc EXCEPT ![w] = "zadd"]
                    /\ UNCHANGED <<ret, now, due, raw_str, result>>
              [] OTHER -> Finish(w, "raised")

Execute(w) ==
    /\ pc[w] = "execute"
    /\ \E mcp \in BOOLEAN, reply \in RemoteReplies, local \in LocalOutcomes :
         Attempt(w, mcp, reply, local)
    /\ UNCHANGED <<tasks, delayed_jobs, slot, files, world>>

\* No process_job call recorded yet.
NotGiven == [mcp |-> FALSE, reply |-> [status |-> 0 - 1], local |-> [kind |-> "none"]]
InitGiven == given = NotGiven
\* Execute, with the inputs of the call kept in given.
ExecuteRecorded(w) ==
    /\ pc[w] = "execute"
    /\ \E mcp \in BOOLEAN, reply \in RemoteReplies, local \in LocalOutcomes :
         /\ Attempt(w, mcp, reply, local)
         /\ given' = [mcp |-> mcp, reply |-> reply, local |-> local]
    /\ UNCHANGED <<tasks, delayed_jobs, slot, files, world>>

\* rh_set(r, "job:<id>", json.dumps(result)); an error result returns True here
SetResult(w) ==
    /\ pc[w] = "set"
    /\ slot' = [slot EXCEPT ![JobOf(w).id] = json_dumps(result[w])]
    /\ IF ErrorTruthy(result[w])
       THEN Finish(w, "True")
       ELSE /\ pc' = [pc EXCEPT ![w] = "write_last"]
            /\ UNCHANGED <<ret, locals>>
    /\ UNCHANGED <<tasks, delayed_jobs, files, world>>

\* the url backfill and the 'last' file
WriteLast(w) ==
    /\ pc[w] = "write_last"
    /\ result' = [result EXCEPT ![w] = Backfill(result[w])]
    /\ files' = WriteFile(files, stable_fname(JobOf(w).id), json_dumps(Backfill(result[w])))
    /\ pc' = [pc EXCEPT ![w] = "write_snap"]
    /\ UNCHANGED <<tasks, delayed_jobs, slot, world, ret,
                   now, due, raw_str, q, retry_after, retry_at, defer_time>>

\* the timestamped snapshot; return True
WriteSnap(w) ==
    /\ pc[w] = "write_snap"
    /\ files' = WriteFile(files, snap_fname(JobOf(w).id, clock), json_dumps(result[w]))
    /\ Finish(w, "True")
    /\ UNCHANGED <<tasks, delayed_jobs, slot, world>>

\* Variant of the zadd step that stores a re-serialized job as the member.
Zadd_Reserialized(w) ==
    /\ pc[w] = "zadd"
    /\ delayed_jobs' = zadd(delayed_jobs, json_dumps_job(JobOf(w)), retry_at[w])
    /\ pc' = [pc EXCEPT ![w] = "set_deferred"]
    /\ UNCHANGED <<tasks, slot, files, world, ret, locals>>

\* rh_zadd(r, "delayed_jobs", {raw_str: retry_at})
Zadd(w) ==
    /\ pc[w] = "zadd"
    /\ delayed_jobs' = zadd(delayed_jobs, raw_str[w], retry_at[w])
    /\ pc' = [pc EXCEPT ![w] = "set_deferred"]
    /\ UNCHANGED <<tasks, slot, files, world, ret, locals>>

\* rh_set(r, "job:<id>", deferred marker); return True
SetDeferred(w) ==
    /\ pc[w] = "set_deferred"
    /\ slot' = [slot EXCEPT ![JobOf(w).id] =
                   json_dumps(DeferredMarker(JobOf(w).id, retry_after[w], retry_at[w]))]
    /\ Finish(w, "True")
    /\ UNCHANGED <<tasks, delayed_jobs, files, world>>

\* One step of run_once in which every store and file operation succeeds.
Handle(w) ==
    \/ RequeueScan(w)
    \/ Zrem(w)
    \/ Rpush(w)
    \/ BlpopTimeout(w)
    \/ Blpop(w)
    \/ SetResult(w)
    \/ WriteLast(w)
    \/ WriteSnap(w)
    \/ Zadd(w)
    \/ SetDeferred(w)
Step(w) == Execute(w) \/ Handle(w)

(* ------------------- failing operations and crashes -------------------- *)
\* zrangebyscore raises: the outer except of the requeue phase passes
ZrangeFails(w) ==
    /\ pc[w] = "idle"
    /\ now' = [now EXCEPT ![w] = clock]
    /\ pc' = [pc EXCEPT ![w] = "blpop"]
    /\ ret' = [ret EXCEPT ![w] = "none"]
    /\ UNCHANGED <<tasks, delayed_jobs, slot, files, world,
                   due, raw_str, result, q, retry_after, retry_at, defer_time>>

\* Variant in which a failing rh_zrem ends the requeue loop.
ZremFails_EndsLoop(w) ==
    /\ pc[w] = "zrem"
    /\ due' = [due EXCEPT ![w] = <<>>]
    /\ pc' = [pc EXCEPT ![w] = "blpop"]
    /\ UNCHANGED <<tasks, delayed_jobs, slot, files, world, ret,
                   now, raw_str, result, q, retry_after, retry_at, defer_time>>

\* rh_zrem raises: the per-member except passes, the push is skipped
ZremFails(w) ==
    /\ pc[w] = "zrem"
    /\ NextMember(w)
    /\ UNCHANGED <<tasks, delayed_jobs, slot, files, world, ret,
                   now, raw_str, result, q, retry_after, retry_at, defer_time>>

\* rh_rpush raises after the member was removed: the per-member except passes
RpushFails(w) ==
    /\ pc[w] = "rpush"
    /\ NextMember(w)
    /\ UNCHANGED <<tasks, delayed_jobs, slot, files, world, ret,
                   now, raw_str, result, q, retry_after, retry_at, defer_time>>

\* rh_blpop raises: nothing catches it
BlpopFails(w) ==
    /\ pc[w] = "blpop"
    /\ Finish(w, "raised")
    /\ UNCHANGED <<tasks, delayed_jobs, slot, files, world>>

\* rh_set of the result raises: only deferrals are caught around it
SetResultFails(w) ==
    /\ pc[w] = "set"
    /\ Finish(w, "raised")
    /\ UNCHANGED <<tasks, delayed_jobs, slot, files, world>>

\* Variant in which the failure of the 'last' file escapes run_once.
WriteLastFails_Escapes(w) ==
    /\ pc[w] = "write_last"
    /\ Finish(w, "raised")
    /\ UNCHANGED <<tasks, delayed_jobs, slot, files, world>>

\* makedirs or the write of the 'last' file raises: printed, return True
WriteLastFails(w) ==
    /\ pc[w] = "write_last"
    /\ Finish(w, "True")
    /\ UNCHANGED <<tasks, delayed_jobs, slot, files, world>>

\* the write of the snapshot raises: passed, return True
WriteSnapFails(w) ==
    /\ pc[w] = "write_snap"
    /\ Finish(w, "True")
    /\ UNCHANGED <<tasks, delayed_jobs, slot, files, world>>

\* rh_zadd or the rh_set of the marker raises: the fallback marks an error
ScheduleFails(w) ==
    /\ pc[w] \in {"zadd", "set_deferred"}
    /\ pc' = [pc EXCEPT ![w] = "set_fallback"]
    /\ UNCHANGED <<tasks, delayed_jobs, slot, files, world, ret, locals>>

\* str(q) of the caught deferral.
StrOfDeferral(r) == <<"retry after", r>>

\* rh_set(r, "job:<id>", {"id": ..., "error": str(q)}); return True
SetFallback(w) ==
    /\ pc[w] = "set_fallback"
    /\ slot' = [slot EXCEPT ![JobOf(w).id] =
                   json_dumps([id |-> JobOf(w).id, error |-> StrOfDeferral(q[w])])]
    /\ Finish(w, "True")
    /\ UNCHANGED <<tasks, delayed_jobs, files, world>>

\* the fallback rh_set raises too: it escapes run_once
SetFallbackFails(w) ==
    /\ pc[w] = "set_fallback"
    /\ Finish(w, "raised")
    /\ UNCHANGED <<tasks, delayed_jobs, slot, files, world>>

\* The worker process dies inside run_once; its locals are gone with it.
Crash(w) ==
    /\ pc[w] \notin {"idle", "crashed"}
    /\ pc' = [pc EXCEPT ![w] = "crashed"]
    /\ DropLocals(w)
    /\ UNCHANGED <<tasks, delayed_jobs, slot, files, world, ret>>

\* One step of run_once in which a store or file operation raises.
Fault(w) ==
    \/ ZrangeFails(w)
    \/ ZremFails(w)
    \/ RpushFails(w)
    \/ BlpopFails(w)
    \/ SetResultFails(w)
    \/ WriteLastFails(w)
    \/ WriteSnapFails(w)
    \/ ScheduleFails(w)
    \/ SetFallback(w)
    \/ SetFallbackFails(w)

(* ------------------------ _save_state (state file) --------------------- *)
\* The serialized value of writer i: json.dump(data) as a sequence of bytes,
\* each tagged with its writer, its position and the length n of the whole
\* document, so that a prefix of a document is not a document.
Bytes(i, n) == [k \in 1..n |-> <<i, k, n>>]
\* Lengths of the serialized values ({"writer": 1, "i": 9} is one byte shorter
\* than {"writer": 1, "i": 10}).
Lengths == {1, 2}
\* The content of the state file before any of the writers ran.
OldContent == Bytes(NumWriters + 1, 1)

\* write(2) of the buffered bytes at offset 0 of a file of the given content:
\* bytes beyond the written ones stay.
WriteAt0(content, bytes) ==
    [k \in 1..(IF Len(content) > Len(bytes) THEN Len(content) ELSE Len(bytes)) |->
        IF k <= Len(bytes) THEN bytes[k] ELSE content[k]]

\* Inode 0 holds the previous state file, inode i the file created by writer i.
InitSave ==
    /\ names \in {[tmp |-> 0, path |-> p] : p \in {0, NumWriters + 1}}
    /\ inodes = [i \in 1..(NumWriters + 1) |-> IF i = NumWriters + 1 THEN OldContent ELSE <<>>]
    /\ data \in [Writers -> Lengths]
    /\ spc = [i \in Writers |-> "open"]
    /\ ftmp = [i \in Writers |-> 0]
    /\ lock = 0

\* The state file is not being written (the dispatch specifications).
InitSaveIdle ==
    /\ names = [tmp |-> 0, path |-> 0]
    /\ inodes = [i \in 1..(NumWriters + 1) |-> <<>>]
    /\ data = [i \in Writers |-> 1]
    /\ spc = [i \in Writers |-> "done"]
    /\ ftmp = [i \in Writers |-> 0]
    /\ lock = 0

\* Variant of the open that writes the state file in place.
OpenTmp_InPlace(i) ==
    /\ spc[i] = "open"
    /\ IF names.path = 0
       THEN /\ names' = [names EXCEPT !.path = i]
            /\ inodes' = [inodes EXCEPT ![i] = <<>>]
            /\ ftmp' = [ftmp EXCEPT ![i] = i]
       ELSE /\ inodes' = [inodes EXCEPT ![names.path] = <<>>]
            /\ ftmp' = [ftmp EXCEPT ![i] = names.path]
            /\ UNCHANGED names
    /\ spc' = [spc EXCEPT ![i] = "dump"]
    /\ UNCHANGED <<data, lock>>

\* open(tmp, "w"): creates path + ".tmp", or truncates the file of that name
OpenTmp(i) ==
    /\ spc[i] = "open"
    /\ IF names.tmp = 0
       THEN /\ names' = [names EXCEPT !.tmp = i]
            /\ inodes' = [inodes EXCEPT ![i] = <<>>]
            /\ ftmp' = [ftmp EXCEPT ![i] = i]
       ELSE /\ inodes' = [inodes EXCEPT ![names.tmp] = <<>>]
            /\ ftmp' = [ftmp EXCEPT ![i] = names.tmp]
            /\ UNCHANGED names
    /\ spc' = [spc EXCEPT ![i] = "dump"]
    /\ UNCHANGED <<data, lock>>

\* json.dump(data, ftmp); ftmp.flush(); os.fsync; close
DumpFlush(i) ==
    /\ spc[i] = "dump"
    /\ inodes' = [inodes EXCEPT ![ftmp[i]] = WriteAt0(inodes[ftmp[i]], Bytes(i, data[i]))]
    /\ spc' = [spc EXCEPT ![i] = "acquire"]
    /\ UNCHANGED <<names, data, ftmp, lock>>

\* with lock: the FileLock is acquired
Acquire(i) ==
    /\ spc[i] = "acquire"
    /\ lock = 0
    /\ lock' = i
    /\ spc' = [spc EXCEPT ![i] = "replace_locked"]
    /\ UNCHANGED <<names, inodes, data, ftmp>>

\* the FileLock is held by another process for the whole timeout: Timeout
AcquireTimeout(i) ==
    /\ spc[i] = "acquire"
    /\ lock # 0
    /\ spc' = [spc EXCEPT ![i] = "replace_nolock"]
    /\ UNCHANGED <<names, inodes, data, ftmp, lock>>

\* from filelock import FileLock raises (the package is not installed): the
\* fcntl branch is taken
NoFileLock(i) ==
    /\ spc[i] = "acquire"
    /\ spc' = [spc EXCEPT ![i] = "replace_fcntl"]
    /\ UNCHANGED <<names, inodes, data, ftmp, lock>>

\* os.replace(tmp, path): the name path now refers to the file tmp referred
\* to; raises when there is no file named tmp.
ReplaceOk == names.tmp # 0
os_replace == [tmp |-> 0, path |-> names.tmp]

\* os.replace under the FileLock or after its Timeout; a failure falls
\* through to the fcntl branch
ReplaceFirst(i) ==
    /\ spc[i] \in {"replace_locked", "replace_nolock"}
    /\ IF ReplaceOk
       THEN names' = os_replace /\ spc' = [spc EXCEPT ![i] = "done"]
       ELSE UNCHANGED names /\ spc' = [spc EXCEPT ![i] = "replace_fcntl"]
    /\ lock' = IF spc[i] = "replace_locked" THEN 0 ELSE lock
    /\ UNCHANGED <<inodes, data, ftmp>>

\* os.replace of the fcntl branch; a failure falls through to the final one
ReplaceFcntl(i) ==
    /\ spc[i] = "replace_fcntl"
    /\ IF ReplaceOk
       THEN names' = os_replace /\ spc' = [spc EXCEPT ![i] = "done"]
       ELSE UNCHANGED names /\ spc' = [spc EXCEPT ![i] = "replace_final"]
    /\ UNCHANGED <<inodes, data, ftmp, lock>>

\* import fcntl, or open(path, "r+") for the lock, raises: the final fallback
FcntlFails(i) ==
    /\ spc[i] = "replace_fcntl"
    /\ spc' = [spc EXCEPT ![i] = "replace_final"]
    /\ UNCHANGED <<names, inodes, data, ftmp, lock>>

\* the final fallback os.replace; a failure is swallowed by the outer except
ReplaceFinal(i) ==
    /\ spc[i] = "replace_final"
    /\ IF ReplaceOk THEN names' = os_replace ELSE UNCHANGED names
    /\ spc' = [spc EXCEPT ![i] = "done"]
    /\ UNCHANGED <<inodes, data, ftmp, lock>>

\* What a reader finds in the state file: a parsed value, or nothing usable.
FileContent == IF names.path = 0 THEN <<>> ELSE inodes[names.path]
AllReturned == \A i \in Writers : spc[i] = "done"

\* The writer dies inside _save_state. At the dump any prefix of the buffered
\* bytes may have reached the temporary file; the operating system releases
\* the FileLock of a dead process.
CrashSave(i) ==
    /\ spc[i] \notin {"done", "crashed"}
    /\ spc' = [spc EXCEPT ![i] = "crashed"]
    /\ IF spc[i] = "dump"
       THEN \E k \in 0..data[i] :
               inodes' = [inodes EXCEPT ![ftmp[i]] =
                             WriteAt0(inodes[ftmp[i]], SubSeq(Bytes(i, data[i]), 1, k))]
       ELSE UNCHANGED inodes
    /\ lock' = IF lock = i THEN 0 ELSE lock
    /\ UNCHANGED <<names, data, ftmp>>

(* ------------------------ _load_state (state file) --------------------- *)
\* json.load succeeds on a complete document only.
IsDoc(content) ==
    \E i \in 0..(NumWriters + 1), n \in Lengths : content = Bytes(i, n)

\* How a _load_state call ended: the parsed state, the empty state {} (with
\* the reason), or an exception that escaped.
NotReturned == [kind |-> "none"]
Loaded(content) == [kind |-> "state", v |-> content]
EmptyState(why) == [kind |-> "empty", why |-> why]
Raised(exc) == [kind |-> "raised", exc |-> exc]

\* The reader's identity as a holder of the FileLock.
ReaderId == 0 - 1

\* What open(path) + json.load(f) does now: io is whether the operating
\* system serves the read.
ReadAttempt(io) ==
    IF ~io THEN Raised("OSError")
    ELSE IF names.path = 0 THEN Raised("FileNotFoundError")
    ELSE IF ~IsDoc(FileContent) THEN Raised("JSONDecodeError")
    ELSE Loaded(FileContent)

\* os.path.exists(path); the import of filelock succeeds or not
LoadStart ==
    /\ rpc = "idle"
    /\ IF names.path = 0
       THEN rpc' = "done" /\ rret' = EmptyState("missing")
       ELSE rpc' \in {"lock", "fcntl"} /\ rret' = NotReturned
    /\ UNCHANGED <<svars, tfile, tdata, tpc, trret, tlock>>

\* with lock (timeout 0.1): acquired, or Timeout while a writer holds it
LoadAcquire ==
    /\ rpc = "lock"
    /\ IF lock = 0
       THEN lock' = ReaderId /\ rpc' = "read_locked"
       ELSE UNCHANGED lock /\ rpc' = "read_nolock"
    /\ UNCHANGED <<names, inodes, data, spc, ftmp, rret, tfile, tdata, tpc, trret, tlock>>

\* One read of the file: under the FileLock, after its Timeout, under the
\* fcntl lock, or the plain read. A failure of one falls through to the next
\* handler; a failure of the plain read ends in the outer handler: return {}.
LoadRead ==
    /\ rpc \in {"read_locked", "read_nolock", "fcntl", "plain"}
    /\ \E io \in BOOLEAN :
         LET got == ReadAttempt(io)
         IN IF got.kind = "state"
            THEN rpc' = "done" /\ rret' = got
            ELSE IF rpc = "plain"
                 THEN rpc' = "done" /\ rret' = EmptyState(got.exc)
                 ELSE /\ rpc' = IF rpc = "fcntl" THEN "plain" ELSE "fcntl"
                      /\ UNCHANGED rret
    /\ lock' = IF rpc = "read_locked" THEN 0 ELSE lock
    /\ UNCHANGED <<names, inodes, data, spc, ftmp, tfile, tdata, tpc, trret, tlock>>

\* the next _load_state call
LoadAgain ==
    /\ rpc = "done"
    /\ rpc' = "idle"
    /\ rret' = NotReturned
    /\ UNCHANGED <<svars, tfile, tdata, tpc, trret, tlock>>

(* ------------- the social backend's state file (in place) -------------- *)
\* The document TwitterResearcher._save_state dumps (writer 0).
TwitterDoc == Bytes(0, tdata)

\* with lock: the FileLock has no timeout, the call waits while the lock file
\* is held; then open(STATE_FILE, "w"): the file is created or truncated
TwitterOpen ==
    /\ tpc = "open"
    /\ ~tlock
    /\ tfile' = [exists |-> TRUE, content |-> <<>>]
    /\ tpc' = "dump"
    /\ UNCHANGED <<svars, rpc, rret, tdata, trret, tlock>>

\* json.dump(self._state, f, indent=2) and the close that flushes it
TwitterDump ==
    /\ tpc = "dump"
    /\ tfile' = [tfile EXCEPT !.content = TwitterDoc]
    /\ tpc' = "done"
    /\ UNCHANGED <<svars, rpc, rret, tdata, trret, tlock>>

\* Another process takes or releases the social backend's lock file.
SocialLockElsewhere ==
    /\ tlock' = ~tlock
    /\ UNCHANGED <<svars, rpc, rret, tfile, tdata, tpc, trret>>

\* the next _save_state call, with another value
TwitterSaveAgain ==
    /\ tpc = "done"
    /\ tpc' = "open"
    /\ tdata' \in Lengths
    /\ UNCHANGED <<svars, rpc, rret, tfile, trret, tlock>>

\* TwitterResearcher._load_state (called by the constructor): only
\* FileNotFoundError is caught.
TwitterLoad ==
    /\ \E io \in BOOLEAN :
         trret' = IF ~tfile.exists THEN EmptyState("missing")
                  ELSE IF ~io THEN Raised("OSError")
                  ELSE IF ~IsDoc(tfile.content) THEN Raised("JSONDecodeError")
                  ELSE Loaded(tfile.content)
    /\ UNCHANGED <<svars, rpc, rret, tfile, tdata, tpc, tlock>>

\* No reader and no social backend writer are running.
InitReadersIdle ==
    /\ rpc = "idle"
    /\ rret = NotReturned
    /\ tfile = [exists |-> FALSE, content |-> <<>>]
    /\ tdata = 1
    /\ tpc = "done"
    /\ trret = NotReturned
    /\ tlock = FALSE

\* One _save_state call of the video backend (writer 1), which may find the
\* temporary file of an earlier writer that died, and one of the social
\* backend; readers of both files.
InitStateFiles ==
    /\ names \in {[tmp |-> t, path |-> p] : t \in {0, 2}, p \in {0, NumWriters + 1}}
    /\ inodes = [i \in 1..(NumWriters + 1) |->
                    IF i = NumWriters + 1 THEN OldContent
                    ELSE IF i = 2 THEN SubSeq(Bytes(2, 2), 1, 1) ELSE <<>>]
    /\ data \in {d \in [Writers -> Lengths] : \A i \in Writers : i # 1 => d[i] = 1}
    /\ spc = [i \in Writers |-> IF i = 1 THEN "open" ELSE "done"]
    /\ ftmp = [i \in Writers |-> 0]
    /\ lock = 0
    /\ rpc = "idle"
    /\ rret = NotReturned
    /\ tfile \in {[exists |-> FALSE, content |-> <<>>], [exists |-> TRUE, content |-> OldContent]}
    /\ tdata \in Lengths
    /\ tpc = "open"
    /\ trret = NotReturned
    /\ tlock = FALSE

(* --------------------- client wrappers (_call_api) --------------------- *)
\* Retry-After header of an upstream 429 reply: absent, unparsable, a number
\* of seconds, the text "nan", or an HTTP-date (the instant it names).
UpstreamRetryAfter ==
    {[h |-> "absent"], [h |-> "junk"], [h |-> "nan"]}
    \cup {[h |-> "num", n |-> n] : n \in {10, 0, 0 - 5}}
    \cup {[h |-> "date", at |-> t] : t \in {20, 100}}
\* What requests.get does: a reply with a status (a 200 body is valid JSON or
\* not), or a RequestException.
UpstreamReplies ==
    {[status |-> 200, json |-> TRUE], [status |-> 200, json |-> FALSE],
     [status |-> 404], [status |-> 500], [status |-> ConnectionFailed]}
    \cup {[status |-> 429, ra |-> h] : h \in UpstreamRetryAfter}
NoReply == [status |-> 0 - 1]

\* The video wrapper's retry_after: float(ra), else the HTTP-date minus the
\* call's now, None when both raise or the header is absent.
VideoRetryAfter(ra, now0) ==
    CASE ra.h = "num" -> Some(ra.n)
      [] ra.h = "nan" -> NaN
      [] ra.h = "date" -> Some(ra.at - now0)
      [] OTHER -> None
\* block_seconds: retry_after when positive, else max(backoff, 60)
BlockSeconds(r, b) ==
    IF Truthy(r) /\ Greater(r, 0) THEN r.n ELSE IF b > 60 THEN b ELSE 60
\* The social wrapper's retry_after: int(ra), else the HTTP-date minus the
\* current time, None when both raise or the header is absent.
SocialRetryAfter(ra, t) ==
    CASE ra.h = "num" -> Some(ra.n)
      [] ra.h = "date" -> Some(ra.at - t)
      [] OTHER -> None

\* Variant of the backoff update without the cap.
NextBackoff_Uncapped(b) == b * 2
\* min(backoff * 2, 30)
NextBackoff(b) == IF b * 2 < 30 THEN b * 2 ELSE 30
\* max_attempts
MaxAttempts == 6

\* blocked_until and blocked_until > now
Blocked_IgnoresState(blocked_until, now0) == FALSE
Blocked(blocked_until, now0) == Truthy(blocked_until) /\ now0 < blocked_until.n

\* How a wrapper call ends.
CallEnds(out) ==
    /\ cout' = out
    /\ cpc' = "returned"
\* the canned or mapped records a wrapper returns
UpstreamRecords == PyList(<<[videoId |-> "v1"]>>)

InitCallIdle ==
    /\ yblock = None
    /\ tblock = None
    /\ tstate = None
    /\ cpc = "idle"
    /\ ckey = TRUE
    /\ cnow = 0
    /\ attempt = 0
    /\ backoff = 0
    /\ requests = 0
    /\ creply = NoReply
    /\ cout = NotReturned
    /\ ncalls = 0
    /\ cback = "none"

\* The persisted block after is_blocked_until() has read it: reading leaves
\* the state file as it is, expired or not.
StateAfterRead_DropsExpired(block) == None
StateAfterRead(block) == block

\* YouTubeResearcher._call_api up to the retry loop: the key check, the read
\* of the persisted block and the block check.
VideoStart ==
    /\ cpc = "idle"
    /\ ncalls < MaxCalls
    /\ ncalls' = ncalls + 1
    /\ \E key \in BOOLEAN :
         /\ ckey' = key
         /\ IF ~key
            THEN CallEnds(Raise("RuntimeError")) /\ UNCHANGED <<cnow, attempt, backoff>>
            ELSE /\ cnow' = clock
                 /\ IF Blocked(yblock, clock)
                    THEN /\ CallEnds(Deferral(Some(yblock.n - clock)))
                         /\ UNCHANGED <<attempt, backoff>>
                    ELSE /\ cpc' = "attempt"
                         /\ attempt' = 1
                         /\ backoff' = 1
                         /\ cout' = NotReturned
    /\ requests' = 0
    /\ creply' = NoReply
    /\ cback' = "video"
    /\ yblock' = (IF ckey' THEN StateAfterRead(yblock) ELSE yblock)
    /\ UNCHANGED <<tblock, tstate, clock, ticks, qvars, svars, rvars, hvars>>

\* time.sleep(backoff + jitter); backoff = min(backoff * 2, 30); continue
SleepAndRetry ==
    /\ clock' = clock + backoff
    /\ backoff' = NextBackoff(backoff)
    /\ attempt' = attempt + 1
    /\ UNCHANGED <<cpc, cout, yblock>>

\* One pass of the retry loop: the request and the handling of its reply.
VideoAttempt ==
    /\ cpc = "attempt"
    /\ requests' = requests + 1
    /\ \E reply \in UpstreamReplies :
         /\ creply' = reply
         /\ CASE reply.status = ConnectionFailed \/ reply.status = 500 ->
                    IF attempt = MaxAttempts
                    THEN CallEnds(Raise("APIError")) /\ UNCHANGED <<clock, backoff, attempt, yblock>>
                    ELSE SleepAndRetry
              [] reply.status = 429 ->
                    LET d == BlockSeconds(VideoRetryAfter(reply.ra, cnow), backoff)
                    IN /\ yblock' = Some(cnow + d)
                       /\ CallEnds(Deferral(Some(d)))
                       /\ UNCHANGED <<clock, backoff, attempt>>
              [] reply.status = 404 ->
                    CallEnds(Raise("APIError")) /\ UNCHANGED <<clock, backoff, attempt, yblock>>
              [] OTHER ->
                    /\ CallEnds(IF reply.json THEN Return(UpstreamRecords) ELSE Raise("APIError"))
                    /\ UNCHANGED <<clock, backoff, attempt, yblock>>
    /\ UNCHANGED <<tblock, tstate, ckey, cnow, ncalls, cback, ticks, qvars, svars, rvars, hvars>>

\* TwitterResearcher(): the constructor loads the state file into _state.
SocialConstruct ==
    /\ cpc = "idle"
    /\ ncalls < MaxCalls
    /\ ncalls' = ncalls + 1
    /\ tstate' = tblock
    /\ cpc' = "constructed"
    /\ ckey' \in BOOLEAN
    /\ requests' = 0
    /\ creply' = NoReply
    /\ cout' = NotReturned
    /\ cback' = "social"
    /\ UNCHANGED <<yblock, tblock, cnow, attempt, backoff, clock, ticks, qvars, svars, rvars, hvars>>

\* TwitterResearcher._call_api: the block check on _state, then one request
\* when a bearer token is configured.
SocialCall ==
    /\ cpc = "constructed"
    /\ cnow' = clock
    /\ IF Blocked(tstate, clock)
       THEN /\ CallEnds(Deferral(Some(tstate.n - clock)))
            /\ UNCHANGED <<requests, creply, tstate, tblock>>
       ELSE IF ~ckey
       THEN /\ CallEnds(Return(PyList(<<>>)))
            /\ UNCHANGED <<requests, creply, tstate, tblock>>
       ELSE /\ requests' = requests + 1
            /\ \E reply \in UpstreamReplies :
                 /\ creply' = reply
                 /\ CASE reply.status = 429 ->
                            LET r == SocialRetryAfter(reply.ra, clock)
                            IN /\ IF Truthy(r) /\ r.n > 0
                                  THEN tstate' = Some(clock + r.n) /\ tblock' = Some(clock + r.n)
                                  ELSE UNCHANGED <<tstate, tblock>>
                               /\ CallEnds(Deferral(IF r # None THEN r ELSE Some(60)))
                      [] reply.status = 200 /\ reply.json ->
                            CallEnds(Return(UpstreamRecords)) /\ UNCHANGED <<tstate, tblock>>
                      [] OTHER ->
                            \* raise_for_status, resp.json() or requests.get raised:
                            \* except Exception: return []
                            CallEnds(Return(PyList(<<>>))) /\ UNCHANGED <<tstate, tblock>>
    /\ UNCHANGED <<yblock, ckey, attempt, backoff, ncalls, cback, clock, ticks, qvars,
                   svars, rvars, hvars>>

\* The call has ended: its locals and the researcher object are dropped.
CallDone ==
    /\ cpc = "returned"
    /\ cpc' = "idle"
    /\ tstate' = None
    /\ ckey' = TRUE
    /\ cnow' = 0
    /\ attempt' = 0
    /\ backoff' = 0
    /\ requests' = 0
    /\ creply' = NoReply
    /\ cout' = NotReturned
    /\ cback' = "none"
    /\ UNCHANGED <<yblock, tblock, ncalls, dvars, svars, rvars, hvars>>

\* Another process of the same backend is rate-limited and persists a block.
BlockedElsewhere ==
    /\ cpc \in {"idle", "constructed"}
    /\ ncalls < MaxCalls
    /\ \/ yblock = None /\ yblock' = Some(clock + 60) /\ UNCHANGED tblock
       \/ tblock = None /\ tblock' = Some(clock + 60) /\ UNCHANGED yblock
    /\ UNCHANGED <<tstate, cpc, ckey, cnow, attempt, backoff, requests, creply, cout,
                   ncalls, cback, dvars, svars, rvars, hvars>>

\* YouTubeResearcher.clear_block, called by an operator's tooling: the
\* persisted blocked_until is removed if there is one.
clear_block ==
    /\ cpc \in {"idle", "constructed"}
    /\ ncalls < MaxCalls
    /\ yblock # None
    /\ yblock' = None
    /\ UNCHANGED <<tblock, tstate, cpc, ckey, cnow, attempt, backoff, requests, creply, cout,
                   ncalls, cback, dvars, svars, rvars, hvars>>

(* ---------------------------- specifications --------------------------- *)
\* One worker process, every store and file operation succeeds.
Init == InitDispatch /\ InitSaveIdle /\ InitReadersIdle /\ InitCallIdle /\ InitGiven
Next ==
    \/ Enqueue(JobIds) /\ UNCHANGED <<svars, rvars, cvars, hvars>>
    \/ Tick /\ UNCHANGED <<svars, rvars, cvars, hvars>>
    \/ \E w \in {1} : Step(w) /\ UNCHANGED <<svars, rvars, cvars, hvars>>
Spec == Init /\ [][Next]_vars

\* One worker process whose store and file operations may raise and which
\* may die inside run_once. One job is followed.
NextFaulty ==
    \/ Enqueue({1}) /\ UNCHANGED <<svars, rvars, cvars, hvars>>
    \/ Tick /\ UNCHANGED <<svars, rvars, cvars, hvars>>
    \/ \E w \in {1} : Step(w) /\ UNCHANGED <<svars, rvars, cvars, hvars>>
    \/ \E w \in {1} : Fault(w) /\ UNCHANGED <<svars, rvars, cvars, hvars>>
    \/ \E w \in {1} : Crash(w) /\ UNCHANGED <<svars, rvars, cvars, hvars>>
SpecFaulty == Init /\ [][NextFaulty]_vars


\* Concurrent _save_state calls on one state file.
InitWriters == InitDispatch /\ InitSave /\ InitReadersIdle /\ InitCallIdle /\ InitGiven
NextSave ==
    \/ \E i \in Writers : OpenTmp(i) /\ UNCHANGED <<dvars, rvars, cvars, hvars>>
    \/ \E i \in Writers : DumpFlush(i) /\ UNCHANGED <<dvars, rvars, cvars, hvars>>
    \/ \E i \in Writers : Acquire(i) /\ UNCHANGED <<dvars, rvars, cvars, hvars>>
    \/ \E i \in Writers : AcquireTimeout(i) /\ UNCHANGED <<dvars, rvars, cvars, hvars>>
    \/ \E i \in Writers : NoFileLock(i) /\ UNCHANGED <<dvars, rvars, cvars, hvars>>
    \/ \E i \in Writers : ReplaceFirst(i) /\ UNCHANGED <<dvars, rvars, cvars, hvars>>
    \/ \E i \in Writers : ReplaceFcntl(i) /\ UNCHANGED <<dvars, rvars, cvars, hvars>>
    \/ \E i \in Writers : ReplaceFinal(i) /\ UNCHANGED <<dvars, rvars, cvars, hvars>>
SpecSave == InitWriters /\ [][NextSave]_vars

\* One writer and one reader on each backend's state file; the writer of the
\* video backend may die at any step, reads may fail.
InitState == InitDispatch /\ InitStateFiles /\ InitCallIdle /\ InitGiven
NextState ==
    \/ OpenTmp(1) /\ UNCHANGED <<dvars, rvars, cvars, hvars>>
    \/ DumpFlush(1) /\ UNCHANGED <<dvars, rvars, cvars, hvars>>
    \/ Acquire(1) /\ UNCHANGED <<dvars, rvars, cvars, hvars>>
    \/ AcquireTimeout(1) /\ UNCHANGED <<dvars, rvars, cvars, hvars>>
    \/ NoFileLock(1) /\ UNCHANGED <<dvars, rvars, cvars, hvars>>
    \/ FcntlFails(1) /\ UNCHANGED <<dvars, rvars, cvars, hvars>>
    \/ ReplaceFirst(1) /\ UNCHANGED <<dvars, rvars, cvars, hvars>>
    \/ ReplaceFcntl(1) /\ UNCHANGED <<dvars, rvars, cvars, hvars>>
    \/ ReplaceFinal(1) /\ UNCHANGED <<dvars, rvars, cvars, hvars>>
    \/ CrashSave(1) /\ UNCHANGED <<dvars, rvars, cvars, hvars>>
    \/ LoadStart /\ UNCHANGED <<dvars, cvars, hvars>>
    \/ LoadAcquire /\ UNCHANGED <<dvars, cvars, hvars>>
    \/ LoadRead /\ UNCHANGED <<dvars, cvars, hvars>>
    \/ LoadAgain /\ UNCHANGED <<dvars, cvars, hvars>>
    \/ TwitterOpen /\ UNCHANGED <<dvars, cvars, hvars>>
    \/ TwitterDump /\ UNCHANGED <<dvars, cvars, hvars>>
    \/ TwitterSaveAgain /\ UNCHANGED <<dvars, cvars, hvars>>
    \/ TwitterLoad /\ UNCHANGED <<dvars, cvars, hvars>>
SpecState == InitState /\ [][NextState]_vars

\* Client-wrapper calls of both backends against an upstream that answers
\* anything, while time passes and other processes persist blocks. Inside the
\* video wrapper's retry loop time passes only in its own sleeps.
InitCall == InitDispatch /\ InitSaveIdle /\ InitReadersIdle /\ InitCallIdle /\ InitGiven
NextCall ==
    \/ VideoStart
    \/ VideoAttempt
    \/ SocialConstruct
    \/ SocialCall
    \/ CallDone
    \/ BlockedElsewhere
    \/ cpc # "attempt" /\ Tick /\ UNCHANGED <<svars, rvars, cvars, hvars>>
SpecCall == InitCall /\ [][NextCall]_vars

\* One worker and one job; the inputs of each process_job call are recorded.
NextAttempt ==
    \/ Enqueue({1}) /\ UNCHANGED <<svars, rvars, cvars, hvars>>
    \/ Tick /\ UNCHANGED <<svars, rvars, cvars, hvars>>
    \/ Handle(1) /\ UNCHANGED <<svars, rvars, cvars, hvars>>
    \/ ExecuteRecorded(1) /\ UNCHANGED <<svars, rvars, cvars>>
SpecAttempt == Init /\ [][NextAttempt]_vars

\* Two worker processes on one store, no failures and no crashes. One job is
\* followed.
NextPair ==
    \/ Enqueue({1}) /\ UNCHANGED <<svars, rvars, cvars, hvars>>
    \/ Tick /\ UNCHANGED <<svars, rvars, cvars, hvars>>
    \/ \E w \in {1, 2} : Step(w) /\ UNCHANGED <<svars, rvars, cvars, hvars>>
SpecPair == Init /\ [][NextPair]_vars

\* One worker and one job whose payload the client chose freely.
NextSelect ==
    \/ Submit({1}) /\ UNCHANGED <<svars, rvars, cvars, hvars>>
    \/ Tick /\ UNCHANGED <<svars, rvars, cvars, hvars>>
    \/ \E w \in {1} : Step(w) /\ UNCHANGED <<svars, rvars, cvars, hvars>>
SpecSelect == Init /\ [][NextSelect]_vars
\* One worker that keeps running and one job: main's loop calls run_once again
\* and again (every call ends, the pop has a timeout), after an exception the
\* process is started again, and time passes.
NextLive ==
    \/ Enqueue({1}) /\ UNCHANGED <<svars, rvars, cvars, hvars>>
    \/ Tick /\ UNCHANGED <<svars, rvars, cvars, hvars>>
    \/ \E w \in {1} : Step(w) /\ UNCHANGED <<svars, rvars, cvars, hvars>>
SpecLive ==
    /\ Init /\ [][NextLive]_vars
    /\ WF_vars(\E w \in {1} : Step(w) /\ UNCHANGED <<svars, rvars, cvars, hvars>>)
    /\ WF_vars(Tick /\ UNCHANGED <<svars, rvars, cvars, hvars>>)
\* The persisted block of the backend that handles the payload (the generic
\* backend has none).
BlockOf(payload) ==
    CASE Backend(payload) = "social" -> tblock
      [] Backend(payload) = "video" -> yblock
      [] OTHER -> None
\* What researcher.search does at time t when the upstream itself answers with
\* records: the block check refuses with blocked_until - now, or the records.
BlockCheckOutcome(block, t) ==
    IF Blocked(block, t)
    THEN [kind |-> "deferred", r |-> Some(block.n - t)]
    ELSE [kind |-> "records", v |-> UpstreamRecords]
\* int(blocked_until - now) while the clock shows second t: the video wrapper
\* reads time.time() as a float, so the remaining time is whole only when now
\* is; otherwise int() drops its fraction. The social wrapper works on whole
\* seconds.
IntOfRemaining(payload, block, t) ==
    IF Backend(payload) = "video" THEN {block.n - t, block.n - t - 1}
    ELSE {block.n - t}
\* The backend as its MCP server sees it, the hint as int() leaves it.
ServedThroughMcp(payload, block, t) ==
    IF Blocked(block, t)
    THEN {[kind |-> "deferred", r |-> Some(k)] : k \in IntOfRemaining(payload, block, t)}
    ELSE {BlockCheckOutcome(block, t)}
\* result = process_job(job) for a backend whose only refusals are those of
\* its block check, called in-process or through its MCP server.
ExecuteChecked(w) ==
    /\ pc[w] = "execute"
    /\ LET payload == JobOf(w).payload
           block == BlockOf(payload)
           local == BlockCheckOutcome(block, clock)
       IN \/ Attempt(w, FALSE, NoReply, local)
          \/ /\ Backend(payload) # "generic"
             /\ \E served \in ServedThroughMcp(payload, block, clock) :
                   Attempt(w, TRUE,
                           IF Backend(payload) = "social"
                           THEN twitter_server_call(served)
                           ELSE youtube_server_call(served),
                           local)
    /\ UNCHANGED <<tasks, delayed_jobs, slot, files, world>>

\* One worker and one job of any backend, while another process of a backend
\* persists a block; the upstream refuses nothing by itself.
NextBlock ==
    \/ Enqueue({1}) /\ UNCHANGED <<svars, rvars, cvars, hvars>>
    \/ Tick /\ UNCHANGED <<svars, rvars, cvars, hvars>>
    \/ BlockedElsewhere
    \/ Handle(1) /\ UNCHANGED <<svars, rvars, cvars, hvars>>
    \/ ExecuteChecked(1) /\ UNCHANGED <<svars, rvars, cvars, hvars>>
SpecBlock == Init /\ [][NextBlock]_vars
\* One block-state write of each backend while other processes hold the lock
\* files for as long as they like (a reader of the video state that stalls
\* under the lock, any process on the social lock file). The writers keep
\* running; nothing is assumed of the lock holders.
VideoWrite ==
    \/ OpenTmp(1) \/ DumpFlush(1) \/ Acquire(1) \/ AcquireTimeout(1) \/ NoFileLock(1)
    \/ FcntlFails(1) \/ ReplaceFirst(1) \/ ReplaceFcntl(1) \/ ReplaceFinal(1)
SocialWrite == TwitterOpen \/ TwitterDump
NextLock ==
    \/ VideoWrite /\ UNCHANGED <<dvars, rvars, cvars, hvars>>
    \/ SocialWrite /\ UNCHANGED <<dvars, cvars, hvars>>
    \/ SocialLockElsewhere /\ UNCHANGED <<dvars, cvars, hvars>>
    \/ LoadStart /\ UNCHANGED <<dvars, cvars, hvars>>
    \/ LoadAcquire /\ UNCHANGED <<dvars, cvars, hvars>>
    \/ LoadRead /\ UNCHANGED <<dvars, cvars, hvars>>
    \/ LoadAgain /\ UNCHANGED <<dvars, cvars, hvars>>
SpecLock ==
    /\ InitState /\ [][NextLock]_vars
    /\ WF_vars(VideoWrite /\ UNCHANGED <<dvars, rvars, cvars, hvars>>)
    /\ WF_vars(SocialWrite /\ UNCHANGED <<dvars, cvars, hvars>>)
\* The client-wrapper calls as above, and an operator who clears the video
\* backend's block.
NextClear ==
    \/ NextCall
    \/ clear_block
SpecClear == InitCall /\ [][NextClear]_vars
\* One worker and two jobs; rh_zrem and rh_rpush of the requeue loop may
\* raise for any member.
NextRequeue ==
    \/ Enqueue(JobIds) /\ UNCHANGED <<svars, rvars, cvars, hvars>>
    \/ Tick /\ UNCHANGED <<svars, rvars, cvars, hvars>>
    \/ \E w \in {1} : Step(w) /\ UNCHANGED <<svars, rvars, cvars, hvars>>
    \/ \E w \in {1} : ZremFails(w) /\ UNCHANGED <<svars, rvars, cvars, hvars>>
    \/ \E w \in {1} : RpushFails(w) /\ UNCHANGED <<svars, rvars, cvars, hvars>>
SpecRequeue == Init /\ [][NextRequeue]_vars

(* ================================ claims =============================== *)
\* max(r, 60) of an optional hint.
MaxHint60(r) == IF r # None /\ Greater(r, 60) THEN r.n ELSE 60
\* The hint is a positive number.
Positive(r) == r # None /\ Greater(r, 0)
\* The step in which run_once returns after storing the deferred marker.
ReturnsDeferred(w) == pc[w] = "set_deferred" /\ pc'[w] = "idle"

\* C1 (as stated): when run_once returns after a deferral with hint r, the
\* popped payload is in delayed_jobs with score now + max(r, 60) and the
\* status slot shows deferred = true.
C1_ScoreIsNowPlusMax60 ==
    [][\A w \in Workers : ReturnsDeferred(w) =>
          /\ \E e \in delayed_jobs' :
                e.m = raw_str[w] /\ e.s = defer_time[w] + MaxHint60(q[w])
          /\ "deferred" \in DOMAIN slot'[JobOf(w).id]
          /\ slot'[JobOf(w).id].deferred = TRUE]_vars

\* C1 (amended): when run_once returns after a deferral with hint r (one
\* worker, store operations succeed), the popped payload is in delayed_jobs
\* with score now + r if r is a positive number and now + 60 otherwise, and
\* the status slot shows deferred = true.
C1_ScoreIsNowPlusDelay ==
    [][\A w \in Workers : ReturnsDeferred(w) =>
          /\ \E e \in delayed_jobs' :
                /\ e.m = raw_str[w]
                /\ e.s = defer_time[w] + (IF Positive(q[w]) THEN q[w].n ELSE 60)
          /\ "deferred" \in DOMAIN slot'[JobOf(w).id]
          /\ slot'[JobOf(w).id].deferred = TRUE]_vars

\* C1 witness: run_once has returned True after a deferral with hint 30:
\* the payload sits in delayed_jobs and its slot holds the marker.
C1_Witness ==
    \E e \in delayed_jobs :
        /\ pc[1] = "idle" /\ ret[1] = "True"
        /\ "deferred" \in DOMAIN slot[e.m.id]
        /\ slot[e.m.id].retry_after = 30
        /\ slot[e.m.id].scheduled_at = e.s

\* C2: the delay of a deferred job is the hint r when r is positive and 60
\* when r is None, zero or negative; the score is the deferral time plus the
\* delay, so strictly later than the deferral and, for positive r, at most r
\* seconds after it (r = 2: due within 10 seconds).
C2_DelayIsHintOr60 ==
    \A w \in Workers : pc[w] = "set_deferred" =>
        LET r == q[w]
            d == retry_after[w]
            s == ZScore(delayed_jobs, raw_str[w])
        IN /\ raw_str[w] \in ZMembers(delayed_jobs)
           /\ Positive(r) => d = r.n
           /\ ~Positive(r) => d = 60
           /\ s = defer_time[w] + d
           /\ s > defer_time[w]
           /\ Positive(r) => s <= defer_time[w] + r.n
           /\ (r = Some(2)) => s <= defer_time[w] + 10

\* C2 witness: a job deferred with the hint 2 after the clock has advanced
\* has been added to delayed_jobs, due 2 seconds after its deferral.
C2_Witness ==
    /\ pc[1] = "set_deferred"
    /\ q[1] = Some(2)
    /\ defer_time[1] > 0
    /\ \E e \in delayed_jobs : e.m = raw_str[1] /\ e.s = defer_time[1] + 2

\* C3: the members of delayed_jobs and the entries pushed back onto tasks are
\* byte for byte the entries that were enqueued: never re-serialized, never
\* annotated, after any number of defer/requeue cycles.
C3_EntriesVerbatim ==
    /\ \A k \in DOMAIN tasks : tasks[k] \in enqueued
    /\ \A e \in delayed_jobs : e.m \in enqueued
    /\ \A w \in Workers : raw_str[w] # None => raw_str[w] \in enqueued

\* C3 witness: an entry in the compact layout is back on tasks after a
\* defer/requeue cycle (its slot still holds the marker of the deferral).
C3_Witness ==
    \E k \in DOMAIN tasks :
        /\ tasks[k].layout = "compact"
        /\ "deferred" \in DOMAIN slot[tasks[k].id]


(* ------------------------- the deferral scenario ----------------------- *)
\* One job is enqueued; its backend raises a deferral with the hint 30 on
\* every attempt; run_once is called with the job on the live queue, and
\* again each time the clock has advanced by 31 seconds after a deferral.
\* The moment of the enqueue is arbitrary.
ScenarioEnqueue == enqueued = {} /\ Enqueue(JobIds)
ScenarioArrival == enqueued = {} /\ ticks = 0 /\ Tick
ScenarioStart ==
    /\ tasks # <<>> \/ \E e \in delayed_jobs : e.s + 1 <= clock
    /\ RequeueScan(1)
ScenarioExecute == Execute(1) /\ q'[1] = Some(30)
ScenarioTick ==
    /\ pc[1] = "idle" /\ ret[1] = "True"
    /\ \A e \in delayed_jobs : e.s > clock
    /\ Tick
    /\ clock' = clock + 31
NextScenario ==
    \/ ScenarioArrival /\ UNCHANGED <<svars, rvars, cvars, hvars>>
    \/ ScenarioEnqueue /\ UNCHANGED <<svars, rvars, cvars, hvars>>
    \/ ScenarioStart /\ UNCHANGED <<svars, rvars, cvars, hvars>>
    \/ Zrem(1) /\ UNCHANGED <<svars, rvars, cvars, hvars>>
    \/ Rpush(1) /\ UNCHANGED <<svars, rvars, cvars, hvars>>
    \/ Blpop(1) /\ UNCHANGED <<svars, rvars, cvars, hvars>>
    \/ ScenarioExecute /\ UNCHANGED <<svars, rvars, cvars, hvars>>
    \/ Zadd(1) /\ UNCHANGED <<svars, rvars, cvars, hvars>>
    \/ SetDeferred(1) /\ UNCHANGED <<svars, rvars, cvars, hvars>>
    \/ ScenarioTick /\ UNCHANGED <<svars, rvars, cvars, hvars>>
SpecScenario == Init /\ [][NextScenario]_vars

\* C4: in the scenario, when run_once has returned after the deferral the
\* slot of the job shows deferred = true and retry_after = 30 and the job is
\* not on the live queue; the run_once called after the clock advanced by 31
\* seconds has the job back on the live queue (out of the delayed set) when
\* it reaches the pop, and pops it for execution.
C4_DeferThenRequeue ==
    /\ (pc[1] = "idle" /\ ret[1] = "True") =>
          \A e \in enqueued :
             /\ "deferred" \in DOMAIN slot[e.id]
             /\ slot[e.id].deferred = TRUE
             /\ slot[e.id].retry_after = 30
             /\ \A k \in DOMAIN tasks : tasks[k] # e
             /\ e \in ZMembers(delayed_jobs)
    /\ pc[1] = "blpop" =>
          /\ \A e \in enqueued : tasks = <<e>>
          /\ delayed_jobs = {}
    /\ pc[1] = "execute" =>
          /\ raw_str[1] \in enqueued
          /\ tasks = <<>>
          /\ delayed_jobs = {}

\* C4 witness: after a deferral and the 31 second advance, the job has been
\* requeued and popped again (its slot still holds the marker).
C4_Witness ==
    /\ clock >= 31
    /\ pc[1] = "execute"
    /\ raw_str[1] \in enqueued
    /\ "deferred" \in DOMAIN slot[raw_str[1].id]
    /\ slot[raw_str[1].id].retry_after = 30

(* ----------------------------- requeue phase --------------------------- *)
\* The elements of a sequence.
Range(seq) == {seq[k] : k \in DOMAIN seq}

\* C5: one requeue phase (one worker, no failures) moves exactly the members
\* whose score is <= now: each is removed from delayed_jobs and then pushed
\* once onto tasks, members with a later score stay untouched, and when the
\* phase has ended no member with score <= now is left, so that a second
\* phase pushes nothing.
C5_RequeueMovesExactlyDue ==
    /\ [](\A w \in Workers :
            /\ pc[w] = "zrem" =>
                  /\ \A m \in Range(due[w]) :
                        /\ m \in ZMembers(delayed_jobs)
                        /\ ZScore(delayed_jobs, m) <= now[w]
                        /\ m \notin Range(tasks)
                  /\ \A e \in delayed_jobs : e.s <= now[w] => e.m \in Range(due[w])
            /\ pc[w] = "rpush" =>
                  /\ Head(due[w]) \notin ZMembers(delayed_jobs)
                  /\ Head(due[w]) \notin Range(tasks)
                  /\ \A e \in delayed_jobs : e.s <= now[w] => e.m \in Range(Tail(due[w]))
            /\ pc[w] = "blpop" => \A e \in delayed_jobs : e.s > now[w]
            /\ \A j, k \in DOMAIN tasks : tasks[j] = tasks[k] => j = k)
    /\ [][\A w \in Workers :
            /\ pc[w] \in {"zrem", "rpush"} =>
                  \A e \in delayed_jobs : e.s > now[w] => e \in delayed_jobs'
            /\ (pc[w] = "rpush" /\ pc'[w] # "rpush") =>
                  tasks' = Append(tasks, Head(due[w]))]_vars

\* C5 witness: a requeue phase has ended with one member moved to tasks (its
\* slot holds the marker of its deferral) and a later one left in place.
C5_Witness ==
    /\ pc[1] = "blpop"
    /\ \E e \in delayed_jobs : e.s > now[1]
    /\ \E k \in DOMAIN tasks : "deferred" \in DOMAIN slot[tasks[k].id]

(* ------------------------------ job safety ----------------------------- *)
\* C6: no job is lost: every enqueued entry is on the live queue, in the
\* delayed set, held by a worker that has not crashed (popped for
\* execution, or in transit between zrem and rpush), or its slot holds a
\* success or error JobResult; under crashes and failing store operations.
C6_NoJobLost ==
    \A e \in enqueued :
        \/ e \in Range(tasks)
        \/ e \in ZMembers(delayed_jobs)
        \/ \E w \in Workers :
              /\ pc[w] # "crashed"
              /\ \/ raw_str[w] = e
                 \/ pc[w] \in {"zrem", "rpush"} /\ e \in Range(due[w])
        \/ "response" \in DOMAIN slot[e.id]
        \/ "error" \in DOMAIN slot[e.id]

\* C7: run_once never raises because of a single job: the step that
\* executes a popped job ends either with a JobResult (with a response or an
\* error) to store, or with a deferral to reschedule, and no call of
\* run_once ends by raising.
C7_RunOnceNeverRaises ==
    [][\A w \in Workers : (pc[w] = "execute" /\ pc'[w] # "execute") =>
          /\ ret'[w] # "raised"
          /\ \/ /\ pc'[w] = "set"
                /\ "response" \in DOMAIN result'[w] \/ "error" \in DOMAIN result'[w]
             \/ pc'[w] = "zadd"]_vars

\* C8: a job whose backend raised a non-quota exception, whatever its
\* message, gets a JobResult with an error field in its slot, and no file
\* of runs/jobs is created or modified for that attempt.
C8_ErrorsNeverWritten ==
    [][\A w \in Workers :
          (pc[w] \in {"set", "write_last", "write_snap"} /\ "error" \in DOMAIN result[w]) =>
             /\ files' = files
             /\ (pc[w] = "set" /\ pc'[w] # "set") =>
                   "error" \in DOMAIN slot'[JobOf(w).id]]_vars

\* C9: round trip: once a popped job has been executed successfully and its
\* result stored, the query of its slot yields a JobResult with the id of
\* the job, with a response and no error, the response being a list
\* whenever the backend returned a list.
C9_RoundTrip ==
    \A w \in Workers :
        (pc[w] \in {"write_last", "write_snap"} /\ "response" \in DOMAIN result[w]) =>
            LET st == get_status(JobOf(w).id)
            IN /\ raw_str[w] \in enqueued
               /\ "id" \in DOMAIN st
               /\ st.id = JobOf(w).id
               /\ "response" \in DOMAIN st
               /\ "error" \notin DOMAIN st
               /\ result[w].response.t = "list" => st.response.t = "list"

\* C9 witness: a job whose backend returned a list has its result stored.
C9_Witness ==
    /\ pc[1] = "write_snap"
    /\ "response" \in DOMAIN result[1]
    /\ result[1].response.t = "list"
    /\ "response" \in DOMAIN get_status(JobOf(1).id)
    /\ get_status(JobOf(1).id).response.t = "list"

\* C10: once all concurrent calls of _save_state have returned, the state
\* file holds exactly one of the written values (so it is valid JSON).
C10_OneWrittenValue ==
    AllReturned => \E i \in Writers : FileContent = Bytes(i, data[i])

(* ------------------------------ state files --------------------------- *)
\* C11: crash-safe write: during one _save_state call, and after the writer
\* died at any step of it, the state file holds the complete previous
\* content or the complete new content, never an empty or partial one; it
\* never disappears; and whatever a reader parses is one of the two.
C11_CrashSafeWrite ==
    /\ [](/\ names.path # 0 => FileContent \in {OldContent, Bytes(1, data[1])}
          /\ rret.kind = "state" => rret.v \in {OldContent, Bytes(1, data[1])}
          /\ rret.kind = "empty" => rret.why \in {"missing", "OSError"}
          /\ spc[1] = "done" => FileContent = Bytes(1, data[1]))
    /\ [][names.path # 0 => names'.path # 0]_vars

\* C11 witness: the writer died leaving a partial temporary file, and a reader
\* has parsed the previous content of the state file afterwards.
C11_Witness ==
    /\ spc[1] = "crashed"
    /\ names.tmp = 1
    /\ inodes[1] # <<>>
    /\ ~IsDoc(inodes[1])
    /\ rret = Loaded(OldContent)

\* C12: reading a backend's block state never raises, for the video
\* backend's _load_state and for TwitterResearcher._load_state: a missing
\* file, an I/O error or unparsable content ends in the empty state.
C12_LoadNeverRaises ==
    /\ rret.kind # "raised"
    /\ trret.kind # "raised"

\* A step in which a _call_api call of the video / social wrapper starts.
VideoCallStarts == cpc = "idle" /\ cback' = "video"
SocialCallStarts == cpc = "constructed" /\ cpc' = "returned"
\* The call that started was refused by the block check with hint b - now.
RefusedUntil(b) ==
    /\ cpc' = "returned"
    /\ cout' = Deferral(Some(b.n - clock))
    /\ requests' = 0
\* The call that started went past the block check.
NotRefused == cpc' = "attempt" \/ requests' > 0 \/ cout'.kind # "deferral"

Video429 == cpc = "attempt" /\ creply'.status = 429
\* The delay the claim resolves from a Retry-After header at time t: the
\* number of seconds when positive, else the seconds until the HTTP-date when
\* positive, else 60.
ResolvedDelay(ra, t) ==
    CASE ra.h = "num" /\ ra.n > 0 -> ra.n
      [] ra.h = "date" /\ ra.at - t > 0 -> ra.at - t
      [] OTHER -> 60

\* C14: on a 429 the video wrapper resolves d (positive number of seconds,
\* else positive seconds until the HTTP-date, else 60), persists
\* blocked_until = now + d and raises QuotaExceeded(retry_after = d), d > 0.
C14_BlockedUntilNowPlusDelay ==
    [][Video429 =>
         LET d == ResolvedDelay(creply'.ra, clock)
         IN /\ d > 0
            /\ yblock' = Some(clock + d)
            /\ cout' = Deferral(Some(d))]_vars

\* researcher.search(...) as process_job sees it: the wrapper's records, its
\* deferral, or the exception it lets escape.
SearchOutcome(out) ==
    CASE out.kind = "return" -> [kind |-> "records", v |-> out.result]
      [] out.kind = "deferral" -> [kind |-> "deferred", r |-> out.retry_after]
      [] OTHER -> [kind |-> "error", msg |-> out.exc]
\* A job of each backend.
VideoJob == [id |-> 1, payload |-> [prompt_id |-> "pr-007", agent |-> "", tags |-> {}]]
SocialJob == [id |-> 1, payload |-> [prompt_id |-> "", agent |-> "twitter_researcher", tags |-> {}]]
\* A step in which a wrapper receives a 4xx reply other than 429.
ClientError4xx == cpc \in {"attempt", "constructed"} /\ creply'.status = 404

\* C15: on a 4xx reply other than 429 the wrapper of either backend raises a
\* non-retryable error without a further attempt, and process_job turns it
\* into a JobResult with an error field, never a success result.
C15_ClientErrorIsError ==
    [][ClientError4xx =>
         /\ cpc' = "returned"
         /\ cout'.kind = "raise"
         /\ LET job == IF cback = "video" THEN VideoJob ELSE SocialJob
                res == process_job(job, FALSE, NoReply, SearchOutcome(cout'))
            IN res.kind = "return" /\ "error" \in DOMAIN res.result]_vars

\* The recorded process_job call of worker 1: the step that makes it, its job
\* and whether the job belongs to a backend with a remote endpoint.
CallStep == pc[1] = "execute" /\ pc'[1] # "execute"
IsBackendJob(job) == IsTwitterJob(job.payload) \/ IsYouTubeJob(job.payload)
RemoteGiven(g, job) == g.mcp /\ IsBackendJob(job)
\* The delay a Retry-After header stands for: its number of seconds when
\* positive, else the 60-second default.
HeaderDelay(ra) == IF ra.h = "num" /\ ra.n > 0 THEN ra.n ELSE 60

\* C16: with a remote endpoint configured, a 429 reply makes process_job raise
\* the deferral with retry_after from the Retry-After header (absent or
\* unparsable: the 60-second default), run_once takes the reschedule path, no
\* result is stored for the reply and the in-process backend is not called.
C16_Remote429Defers ==
    [][CallStep /\ RemoteGiven(given', JobOf(1)) /\ given'.reply.status = 429 =>
         /\ RemoteCall(JobOf(1), TRUE, given'.reply) # FallBack
         /\ pc'[1] = "zadd"
         /\ retry_after'[1] = HeaderDelay(given'.reply.ra)
         /\ retry_at'[1] = clock + HeaderDelay(given'.reply.ra)]_vars

\* The record list a 200 reply carries, under either server's key.
CarriedRecords(reply) ==
    IF "response" \in DOMAIN reply THEN reply.response ELSE reply.results

\* C17: with a remote endpoint configured (video or social), a 200 reply makes
\* process_job return a success JobResult (id, response, finished_at, no
\* error) whose response is the record list the reply carries.
C17_Remote200IsSuccess ==
    [][CallStep /\ RemoteGiven(given', JobOf(1)) /\ given'.reply.status = 200 =>
         /\ pc'[1] = "set"
         /\ result'[1] = SuccessResult(JobOf(1).id, CarriedRecords(given'.reply))]_vars

\* C18: with a remote endpoint configured, a reply whose status is neither
\* 200 nor 429 ends the attempt with a JobResult carrying an error field, and
\* the job is not rescheduled.
C18_RemoteOtherStatusIsError ==
    [][CallStep /\ RemoteGiven(given', JobOf(1)) /\ given'.reply.status = 500 =>
         /\ pc'[1] = "set"
         /\ "error" \in DOMAIN result'[1]
         /\ delayed_jobs' = delayed_jobs]_vars

\* C19: with a remote endpoint configured, when the POST fails at the network
\* level the attempt's outcome is the in-process backend's outcome: a success
\* JobResult holding its records, or its deferral, for video and social jobs.
C19_NetworkFailureFallsBack ==
    [][CallStep /\ RemoteGiven(given', JobOf(1))
             /\ given'.reply.status = ConnectionFailed =>
         /\ RemoteCall(JobOf(1), TRUE, given'.reply) = FallBack
         /\ given'.local.kind = "records" =>
                /\ pc'[1] = "set"
                /\ result'[1] = SuccessResult(JobOf(1).id, given'.local.v)
         /\ given'.local.kind = "deferred" =>
                /\ pc'[1] = "zadd"
                /\ q'[1] = given'.local.r]_vars

\* The reply of the job's MCP server when the backend behind it does served.
server_call(job, served) ==
    IF IsTwitterJob(job.payload) THEN twitter_server_call(served)
    ELSE youtube_server_call(served)
\* A deferral of the backend with hint r.
DeferredWith(r) == [kind |-> "deferred", r |-> Some(r)]
\* Positive whole-second hints.
PositiveHints == {h.n : h \in {x \in Hints : Positive(x)}}

\* C20: when the backend behind an MCP server raises a deferral with a
\* positive whole-second hint r, the server replies 429 with Retry-After: r,
\* the worker turns the reply into a deferral with retry_after = r, and the
\* job is scheduled with the delay an in-process deferral with hint r gets.
C20_DeferralRoundTrip ==
    [][\A r \in PositiveHints :
         CallStep /\ RemoteGiven(given', JobOf(1))
                  /\ given'.reply = server_call(JobOf(1), DeferredWith(r)) =>
            LET inproc == process_job(JobOf(1), FALSE, given'.reply, DeferredWith(r))
            IN /\ given'.reply = [status |-> 429, ra |-> HeaderOfSeconds(r)]
               /\ pc'[1] = "zadd"
               /\ q'[1] = Some(r)
               /\ inproc = Deferral(Some(r))
               /\ retry_after'[1] = RetryDelay(inproc.retry_after)
               /\ retry_at'[1] = clock + RetryDelay(inproc.retry_after)]_vars
\* A social job deferred through its server with hint 90 is about to be
\* scheduled 90 seconds ahead.
C20_Witness ==
    /\ pc[1] = "zadd"
    /\ given.mcp
    /\ IsTwitterJob(JobOf(1).payload)
    /\ given.reply = server_call(JobOf(1), DeferredWith(90))
    /\ retry_after[1] = 90
    /\ retry_at[1] = defer_time[1] + 90

\* A step in which the run_once call of worker w that popped a job ends.
AttemptEnds(w) == raw_str[w] # None /\ pc[w] # "idle" /\ pc'[w] = "idle"
\* The stored text is the JobResult res (the url backfill apart, which comes
\* after the store).
StoredIs(text, res) == Backfill(json_loads(text)) = Backfill(res)

\* C21: after every dispatch attempt that popped a job, the slot job:<id>
\* holds the outcome of that attempt: its success or error JobResult, or the
\* deferred marker, whatever the slot held before.
C21_SlotHoldsLatestOutcome ==
    [][\A w \in Workers : AttemptEnds(w) =>
          LET id == JobOf(w).id
          IN \/ /\ pc[w] \in {"set", "write_last", "write_snap"}
                /\ StoredIs(slot'[id], result[w])
             \/ /\ pc[w] = "set_deferred"
                /\ slot'[id] = json_dumps(DeferredMarker(id, retry_after[w], retry_at[w]))]_vars

\* A step in which the write of the 'last' file or of the snapshot fails.
FileWriteFails(w) ==
    /\ pc[w] \in {"write_last", "write_snap"}
    /\ pc'[w] = "idle"
    /\ files' = files

\* C22: when the write of the 'last' file or of the snapshot of a successful
\* job fails, run_once returns True, raises nothing, and the slot holds the
\* success JobResult, which was stored before any file write was attempted.
C22_FileFailureKeepsResult ==
    /\ [](\A w \in Workers :
             (pc[w] \in {"write_last", "write_snap"} /\ "response" \in DOMAIN result[w]) =>
             /\ "response" \in DOMAIN slot[JobOf(w).id]
             /\ "error" \notin DOMAIN slot[JobOf(w).id]
             /\ StoredIs(slot[JobOf(w).id], result[w]))
    /\ [][\A w \in Workers : FileWriteFails(w) =>
             /\ ret'[w] = "True"
             /\ slot' = slot]_vars
\* run_once has returned True with the success result in the slot and no
\* 'last' file of the job on disk.
C22_Witness ==
    /\ pc[1] = "idle"
    /\ ret[1] = "True"
    /\ "response" \in DOMAIN slot[1]
    /\ \A f \in files : f.name # stable_fname(1)

\* The kinds of value a status slot can hold, by the fields of the stored text.
IsDeferredMarker(v) ==
    /\ {"deferred", "retry_after", "scheduled_at"} \subseteq DOMAIN v
    /\ v.deferred = TRUE
    /\ "response" \notin DOMAIN v
    /\ "error" \notin DOMAIN v
IsSuccessResult(v) == "response" \in DOMAIN v /\ "error" \notin DOMAIN v
IsErrorResult(v) == "error" \in DOMAIN v /\ "response" \notin DOMAIN v

\* C24: at every instant a job's slot is absent (the status endpoint answers
\* pending), a deferred marker (deferred = true, retry_after, scheduled_at),
\* a success JobResult (response, no error) or an error JobResult (error, no
\* response); no stored value carries both error and response.
C24_SlotShapes ==
    \A j \in JobIds :
        /\ \/ slot[j] = Absent /\ get_status(j) = [status |-> "pending"]
           \/ slot[j] # Absent /\ IsDeferredMarker(get_status(j))
           \/ slot[j] # Absent /\ IsSuccessResult(get_status(j)) /\ ~("deferred" \in DOMAIN slot[j])
           \/ slot[j] # Absent /\ IsErrorResult(get_status(j)) /\ ~("deferred" \in DOMAIN slot[j])
        /\ ~({"error", "response"} \subseteq DOMAIN slot[j])
\* The slot of a job holds the error stored after a failed reschedule while
\* the worker is back in its loop.
C24_Witness ==
    /\ IsErrorResult(get_status(1))
    /\ "finished_at" \notin DOMAIN slot[1]
    /\ pc[1] = "idle"

\* A step in which the run_once call of worker w ends.
RunOnceEnds(w) == pc[w] # "idle" /\ pc'[w] = "idle"
\* The positions of run_once before an item was popped.
BeforePop == {"idle", "zrem", "rpush", "blpop"}

\* C25: run_once returns False exactly when the blocking pop timed out with
\* no item, and up to that point it has written no slot, added nothing to the
\* delayed set and written no file (only requeue moves); it returns True
\* whenever a job was popped, succeeded, errored or deferred.
C25_ReturnValue ==
    [][\A w \in Workers :
          /\ RunOnceEnds(w) =>
                /\ ret'[w] = "False" <=> (pc[w] = "blpop" /\ tasks = <<>>)
                /\ raw_str[w] # None => ret'[w] = "True"
          /\ pc[w] \in BeforePop =>
                /\ slot' = slot
                /\ files' = files
                /\ ZMembers(delayed_jobs') \subseteq ZMembers(delayed_jobs)]_vars

\* How often an entry is on the live queue, and the workers it was delivered
\* to and that have not handed it on to the delayed set.
Occurrences(list, e) == Cardinality({i \in DOMAIN list : list[i] = e})
Holders(e) == {w \in Workers : raw_str[w] = e /\ pc[w] # "set_deferred"}

\* C28: with two workers and no crashes, concurrent requeue phases push each
\* due member onto the live queue exactly once, so that no job is on the
\* queue twice or delivered to two workers.
C28_PushedOnce ==
    \A e \in enqueued : Occurrences(tasks, e) + Cardinality(Holders(e)) <= 1

\* The snapshot files, and the content of the 'last' file of a job.
Snapshots(dir) == {f \in dir : f.name.kind = "job"}
LastFiles(dir, id) == {f.content : f \in {g \in dir : g.name = stable_fname(id)}}

\* C23: a snapshot file, once written, is never overwritten or modified by a
\* later dispatch attempt, and when a successful attempt ends the 'last' file
\* of the job holds that attempt's result.
C23_SnapshotsImmutable ==
    [][/\ Snapshots(files) \subseteq Snapshots(files')
       /\ \A w \in Workers : (pc[w] = "write_snap" /\ pc'[w] = "idle") =>
             LastFiles(files', JobOf(w).id) = {json_dumps(result[w])}]_vars

\* The slot of job j holds a final result.
HasFinalResult(j) == IsSuccessResult(slot[j]) \/ IsErrorResult(slot[j])

\* C30: once a job's slot holds a success or error JobResult, no later step
\* of any worker replaces it with a deferred marker or a different result.
C30_FinalResultStays ==
    [][\A j \in JobIds : HasFinalResult(j) => slot'[j] = slot[j]]_vars


\* Where a job is: the number of its entries on the live queue, of its members
\* in the delayed set, and of the run_once calls that popped it and have not
\* handed it to the delayed set.
Queued(j) == Cardinality({i \in DOMAIN tasks : tasks[i].id = j})
Delayed(j) == Cardinality({m \in ZMembers(delayed_jobs) : m.id = j})
Executing(j) == Cardinality({w \in Workers : /\ raw_str[w] # None
                                             /\ raw_str[w].id = j
                                             /\ pc[w] # "set_deferred"})

\* C29: with one worker and no crashes every job is in at most one of the
\* live queue, the delayed set and execution; a member about to be pushed by
\* the requeue loop has already left the delayed set, and a job about to be
\* added to the delayed set has left the live queue.
C29_OnePlace ==
    /\ \A j \in JobIds : Queued(j) + Delayed(j) + Executing(j) <= 1
    /\ \A w \in Workers :
          /\ pc[w] = "rpush" =>
                /\ Head(due[w]) \notin ZMembers(delayed_jobs)
                /\ Queued(Head(due[w]).id) = 0
          /\ pc[w] = "zadd" => Queued(raw_str[w].id) = 0
C29_Witness ==
    /\ pc[1] = "rpush"
    /\ Len(due[1]) = 2
    /\ due[1][2] \in ZMembers(delayed_jobs)
    /\ Queued(1) + Queued(2) = 0

\* The predicates as the claim words them: on prompt_id, agent and tags.
SocialByFields(payload) ==
    \/ payload.prompt_id = "pr-twitter"
    \/ payload.agent = "twitter_researcher"
    \/ "twitter" \in payload.tags
VideoByFields(payload) ==
    \/ payload.prompt_id = "pr-007"
    \/ payload.agent = "youtube_researcher"
    \/ "youtube" \in payload.tags
\* The same with the prompt id the code uses: prompt_id, or the payload's id
\* field when prompt_id is absent or empty.
SocialByEffectiveId(payload) ==
    \/ payload.prompt_id = "pr-twitter"
    \/ payload.prompt_id = "" /\ "id" \in DOMAIN payload /\ payload.id = "pr-twitter"
    \/ payload.agent = "twitter_researcher"
    \/ "twitter" \in payload.tags
VideoByEffectiveId(payload) ==
    \/ payload.prompt_id = "pr-007"
    \/ payload.prompt_id = "" /\ "id" \in DOMAIN payload /\ payload.id = "pr-007"
    \/ payload.agent = "youtube_researcher"
    \/ "youtube" \in payload.tags
\* The job whose process_job call is about to run.
Selecting(w) == pc[w] = "execute"

\* C27 (as stated): a payload with prompt_id 'pr-twitter', agent
\* 'twitter_researcher' or a tag 'twitter' goes to the social backend even if
\* it also matches a video predicate; otherwise prompt_id 'pr-007', agent
\* 'youtube_researcher' or a tag 'youtube' goes to the video backend; every
\* other payload goes to the generic backend.
C27_FirstMatch ==
    \A w \in Workers : Selecting(w) =>
        LET payload == JobOf(w).payload
        IN /\ SocialByFields(payload) => Backend(payload) = "social"
           /\ (~SocialByFields(payload) /\ VideoByFields(payload)) =>
                  Backend(payload) = "video"
           /\ (~SocialByFields(payload) /\ ~VideoByFields(payload)) =>
                  Backend(payload) = "generic"
\* C27 (amended): the same first-match order social, video, generic, where the
\* prompt id tested is payload.prompt_id or, when that is absent or empty,
\* payload.id.
C27_FirstMatchEffectiveId ==
    \A w \in Workers : Selecting(w) =>
        LET payload == JobOf(w).payload
        IN /\ SocialByEffectiveId(payload) => Backend(payload) = "social"
           /\ (~SocialByEffectiveId(payload) /\ VideoByEffectiveId(payload)) =>
                  Backend(payload) = "video"
           /\ (~SocialByEffectiveId(payload) /\ ~VideoByEffectiveId(payload)) =>
                  Backend(payload) = "generic"
\* A payload that matches the social predicate by its id field and the video
\* predicate by its agent is about to be processed, and goes to social.
C27_Witness ==
    /\ Selecting(1)
    /\ JobOf(1).payload.agent = "youtube_researcher"
    /\ JobOf(1).payload.prompt_id = ""
    /\ JobOf(1).payload.tags = {}
    /\ "id" \in DOMAIN JobOf(1).payload
    /\ JobOf(1).payload.id = "pr-twitter"
    /\ Backend(JobOf(1).payload) = "social"

\* The delayed set holds a member of job j whose score is <= now.
DueMember(j) == \E e \in delayed_jobs : e.m.id = j /\ e.s <= clock
WasEnqueued(j) == \E e \in enqueued : e.id = j
\* The job waits in the delayed set for a time the bounded clock never reaches
\* (its backend deferred it up to the end of the modelled time).
WaitsBeyondClock(j) ==
    /\ ticks = MaxTicks
    /\ \E e \in delayed_jobs : e.m.id = j /\ e.s > clock

\* C26: while the worker keeps running and store operations succeed, every
\* due member of the delayed set is eventually pushed onto the live queue, and
\* every enqueued job that is not deferred to the end of time eventually has a
\* success or error result in its slot.
C26_Liveness ==
    /\ \A j \in JobIds : DueMember(j) ~> (Queued(j) > 0)
    /\ \A j \in JobIds : WasEnqueued(j) ~> (HasFinalResult(j) \/ WaitsBeyondClock(j))

\* The video wrapper's retry loop makes a request in this step.
VideoRequest == cback = "video" /\ cpc = "attempt" /\ requests' = requests + 1
\* The reply of that request is a connection error or a 5xx.
TransientReply == creply'.status = ConnectionFailed \/ creply'.status = 500
\* The loop goes on to another attempt.
LoopsOn == cpc' = "attempt"

\* C31: one _call_api call of the video wrapper makes at most 6 requests and
\* every pass of its loop either ends the call or uses up one of the 6
\* attempts; another attempt follows only a connection error or a 5xx, after
\* a sleep of the current backoff, which doubles from 1 and stays <= 30; a
\* 429 ends the call at once with the deferral, without sleep; the 6th
\* transient failure ends it with APIError.
C31_BoundedRetries ==
    /\ [](cback = "video" =>
             /\ requests <= MaxAttempts
             /\ cpc = "attempt" => (attempt = requests + 1 /\ attempt <= MaxAttempts)
             /\ cpc = "attempt" => backoff \in {1, 2, 4, 8, 16, 30})
    /\ [][VideoRequest =>
             /\ LoopsOn =>
                   /\ TransientReply
                   /\ attempt' = attempt + 1
                   /\ clock' = clock + backoff /\ backoff <= 30
                   /\ backoff' = (IF 2 * backoff < 30 THEN 2 * backoff ELSE 30)
             /\ ~LoopsOn => cpc' = "returned" /\ clock' = clock
             /\ creply'.status = 429 =>
                   /\ cpc' = "returned" /\ cout'.kind = "deferral"
                   /\ clock' = clock /\ requests' = requests + 1
             /\ (TransientReply /\ attempt = MaxAttempts) => cout' = Raise("APIError")
             /\ (TransientReply /\ attempt < MaxAttempts) => LoopsOn]_vars
C31_Witness ==
    /\ cback = "video" /\ cpc = "returned"
    /\ requests = MaxAttempts /\ cout = Raise("APIError")
    /\ creply.status = 500

\* The social wrapper's request of this step is answered with a 429.
Social429 == cback = "social" /\ cpc = "constructed" /\ creply'.status = 429
\* The hint of that reply is absent, unparsable, zero or negative.
FallbackHint(ra, t) ==
    \/ ra.h \notin {"num", "date"}
    \/ ra.h = "num" /\ ra.n <= 0
    \/ ra.h = "date" /\ ra.at - t <= 0

\* C32: on a 429 the social wrapper persists blocked_until = now + d and
\* raises the deferral with retry_after = d > 0, for every form of the
\* Retry-After hint; d >= 60 when the hint is absent, unparsable, zero or
\* negative.
C32_SocialDeferral ==
    [][Social429 =>
          /\ cpc' = "returned" /\ cout'.kind = "deferral"
          /\ cout'.retry_after # None
          /\ cout'.retry_after.n > 0
          /\ tblock' = Some(clock + cout'.retry_after.n)
          /\ FallbackHint(creply'.ra, clock) => cout'.retry_after.n >= 60]_vars

\* The 429 of this step carries a number of seconds.
NumericHint(reply) == reply.ra.h = "num"

\* C33: when the video wrapper receives a 429 with a numeric Retry-After of n
\* seconds at time t, after any number of retried attempts of the same call,
\* the blocked_until it persists is at least t + n.
C33_BlockCoversHint ==
    [][(Video429 /\ NumericHint(creply')) =>
          /\ yblock' # None
          /\ yblock'.n >= clock + creply'.ra.n]_vars

\* The job of worker w is refused by its backend's block check in this step.
RefusedByBlock(w) ==
    /\ pc[w] = "execute" /\ pc'[w] = "zadd"
    /\ Blocked(BlockOf(JobOf(w).payload), clock)

\* C34: a job refused by the block check of a backend blocked until T is
\* scheduled with a score >= T, and the members of the delayed set keep a
\* score >= T, so that the requeued job is not refused by the same T again.
C34_ScoreCoversBlock ==
    /\ [][\A w \in Workers : RefusedByBlock(w) =>
              retry_at'[w] >= BlockOf(JobOf(w).payload).n]_vars
    /\ [](\A e \in delayed_jobs :
              BlockOf(e.m.payload) # None => e.s >= BlockOf(e.m.payload).n)

\* C35: a block-state write of either backend returns whatever the holders
\* of the lock do: the video backend's _save_state and the social backend's
\* _save_state both reach their end.
C35_WriteReturns ==
    /\ <>(spc[1] = "done")
    /\ <>(tpc = "done")

\* A step of a wrapper call, and one in which a 429 arrives.
WrapperStep == cpc' # cpc \/ requests' # requests
Receives429 == requests' = requests + 1 /\ creply'.status = 429
\* The wrapper call ends in this step without having received a 429.
EndsWithout429 ==
    /\ cpc # "returned" /\ cpc' = "returned"
    /\ ~Receives429

\* C36: the persisted block of either backend changes only in a step that
\* receives a 429 or in a clear_block call (here or in another process): a
\* wrapper call that ends in success, in an error or in the block check's
\* deferral leaves both unchanged, and no wrapper step removes blocked_until,
\* expired or not.
C36_BlockFrame ==
    [][/\ (WrapperStep /\ ~Receives429) => (yblock' = yblock /\ tblock' = tblock)
       /\ EndsWithout429 => (yblock' = yblock /\ tblock' = tblock)
       /\ WrapperStep => /\ yblock # None => yblock' # None
                         /\ tblock # None => tblock' # None
       /\ (yblock # None /\ yblock' = None) => ~WrapperStep]_vars
\* A video call has returned records while the expired block is still stored.
C36_Witness ==
    /\ cback = "video" /\ cpc = "returned" /\ cout.kind = "return"
    /\ yblock # None /\ yblock.n <= clock

\* Worker w is inside the requeue loop and takes a step.
LoopStep(w) == pc[w] \in {"zrem", "rpush"} /\ <<pc[w], due[w]>> # <<pc'[w], due'[w]>>
\* The step stays with the current member (its remove succeeded), or goes on
\* to the next member, or to the pop after the last one.
StaysOnMember(w) ==
    /\ pc[w] = "zrem" /\ pc'[w] = "rpush" /\ due'[w] = due[w]
    /\ Head(due[w]) \notin ZMembers(delayed_jobs')
GoesOn(w) ==
    /\ due'[w] = Tail(due[w])
    /\ pc'[w] = (IF Tail(due[w]) = <<>> THEN "blpop" ELSE "zrem")
\* The remove or the push of the current member failed in this step.
MemberFailed(w) ==
    /\ LoopStep(w) /\ GoesOn(w)
    /\ tasks' = tasks /\ delayed_jobs' = delayed_jobs

\* C37: in the requeue loop a failed remove or push of one member neither
\* ends the loop nor run_once: the members not yet handled keep waiting in
\* the delayed set for their turn, every step of the loop stays with its
\* member or goes on to the next one, the pop follows the last member only,
\* and a turn without failure removes the member and pushes it.
C37_RequeueGoesOn ==
    /\ [](\A w \in {1} : pc[w] \in {"zrem", "rpush"} =>
             /\ due[w] # <<>>
             /\ \A k \in 2..Len(due[w]) : due[w][k] \in ZMembers(delayed_jobs))
    /\ [][\A w \in {1} : LoopStep(w) =>
             /\ StaysOnMember(w) \/ GoesOn(w)
             /\ ret'[w] = ret[w]
             /\ pc'[w] = "blpop" => Len(due[w]) = 1
             /\ (GoesOn(w) /\ ~MemberFailed(w)) =>
                   /\ pc[w] = "rpush"
                   /\ tasks' = Append(tasks, Head(due[w]))]_vars
\* The remove of the first of two due members has failed and the second has
\* been removed and pushed: run_once is at the pop.
C37_Witness ==
    /\ pc[1] = "blpop"
    /\ Cardinality({e \in delayed_jobs : e.s <= now[1]}) = 1
    /\ Len(tasks) = 1
    /\ Cardinality(enqueued) = 2

\* The deferral path of run_once ends for worker w.
DeferralPathEnds(w) == pc[w] \in {"set_deferred", "set_fallback"} /\ pc'[w] = "idle"
\* The popped job of w is a member of the delayed set.
Scheduled(w) == raw_str[w] \in ZMembers(delayed_jobs)

\* C38: when the deferral path of run_once ends, the slot is an error result
\* only if the job is not in the delayed set, it is the deferred marker if
\* the job is in the delayed set, and run_once returns True.
C38_ErrorOnlyWhenUnscheduled ==
    [][\A w \in {1} : DeferralPathEnds(w) =>
         /\ ret'[w] = "True"
         /\ slot'[JobOf(w).id] # Absent
         /\ IsErrorResult(json_loads(slot'[JobOf(w).id])) => ~Scheduled(w)
         /\ Scheduled(w) => IsDeferredMarker(json_loads(slot'[JobOf(w).id]))]_vars
\* The part of C38 for runs whose rh_set calls succeed once rh_zadd has.
C38_WhenSetSucceeds ==
    [][\A w \in {1} : (DeferralPathEnds(w) /\ (pc[w] = "set_fallback" => ~Scheduled(w))
                         /\ ret'[w] # "raised") =>
         /\ ret'[w] = "True"
         /\ slot'[JobOf(w).id] # Absent
         /\ IsErrorResult(json_loads(slot'[JobOf(w).id])) => ~Scheduled(w)
         /\ Scheduled(w) => IsDeferredMarker(json_loads(slot'[JobOf(w).id]))]_vars

\* A successful dispatch attempt of worker w ends: the snapshot was the last
\* write.
SuccessEnds(w) == pc[w] = "write_snap" /\ pc'[w] = "idle"

\* C39: when a successful dispatch attempt ends, the JobResult in the slot
\* job:<id> equals the one in last_job_<id>.json, url fields included.
C39_SlotEqualsLastFile ==
    [][\A w \in Workers : SuccessEnds(w) =>
         LastFiles(files', JobOf(w).id) = {slot'[JobOf(w).id]}]_vars
\* The part of C39 that disregards the backfilled url fields.
C39_EqualUpToBackfill ==
    [][\A w \in Workers : SuccessEnds(w) =>
         \A c \in LastFiles(files', JobOf(w).id) :
             /\ slot'[JobOf(w).id] # Absent
             /\ json_loads(c) = Backfill(json_loads(slot'[JobOf(w).id]))]_vars

====
